---------------------------- MODULE Spec2Model ----------------------------
(***************************************************************************)
(* TabSentry background worker: session recovery and window                *)
(* reconciliation (session-manager.js, url-matcher.js, db.js, the          *)
(* background entry script and the window/tab listeners).                  *)
(*                                                                         *)
(* Scores are exact rationals [num, den]; JavaScript computes them in      *)
(* doubles.  On the URL universe used here score < 0.35 agrees with the    *)
(* exact comparison, and two scores that differ exactly are ordered the    *)
(* same way as doubles.  Two scores that are equal exactly are the same    *)
(* double when their four components are equal; otherwise their doubles    *)
(* may differ in the last place, and the sort may put either first.        *)
(***************************************************************************)
EXTENDS Integers, Sequences, FiniteSets, TLC

(***************************************************************************)
(* Bounds of the model.                                                    *)
(***************************************************************************)
MaxTabsPerWindow == 2

(***************************************************************************)
(* URLs.  A URL is the record the WHATWG parser makes of the string:       *)
(* scheme, hostname, pathname.  NoUrl is the empty string.                 *)
(***************************************************************************)
Null == "null"

UrlA == [scheme |-> "https", host |-> "a.com", path |-> "/"]
UrlA2 == [scheme |-> "https", host |-> "a.com", path |-> "/x"]
UrlB == [scheme |-> "https", host |-> "b.com", path |-> "/"]
UrlChrome == [scheme |-> "chrome", host |-> "newtab", path |-> "/"]
NoUrl == [scheme |-> "", host |-> "", path |-> ""]


RECURSIVE SetToSeq(_)
SetToSeq(S) ==
    IF S = {} THEN <<>>
    ELSE LET m == CHOOSE x \in S : \A y \in S : x <= y
         IN <<m>> \o SetToSeq(S \ {m})

SeqToSet(s) == {s[i] : i \in DOMAIN s}

(***************************************************************************)
(* URLMatcher                                                              *)
(***************************************************************************)
extractDomain(url) ==
    IF url = NoUrl THEN Null ELSE url.host

\* hostname + pathname, kept as the pair; <<>> stands for null
extractPath(url) ==
    IF url = NoUrl THEN <<>> ELSE <<url.host, url.path>>

\* JavaScript truthiness of what extractDomain / extractPath return
TruthyDomain(d) == d # Null /\ d # ""
TruthyPath(p) == p # <<>> /\ p # <<"", "">>

InternalSchemes == {"chrome", "chrome-extension", "about", "edge", "brave"}

isValidUrl(url) ==
    /\ url # NoUrl
    /\ url.scheme \notin InternalSchemes

\* intersection over the sum of the two sizes instead of over the union
jaccardOverSum(set1, set2) ==
    IF set1 \cup set2 = {} THEN [num |-> 1, den |-> 1]
    ELSE [num |-> Cardinality(set1 \cap set2), den |-> Cardinality(set1) + Cardinality(set2)]

jaccardSimilarity(set1, set2) ==
    LET intersection == set1 \cap set2
        union == set1 \cup set2
    IN IF union = {} THEN [num |-> 1, den |-> 1]
       ELSE [num |-> Cardinality(intersection), den |-> Cardinality(union)]

Abs(x) == IF x < 0 THEN -x ELSE x
Max(a, b) == IF a >= b THEN a ELSE b

\* the weights 0.4 / 0.3 / 0.15 / 0.15, in hundredths
WeightDomain == 40
WeightPath == 30
WeightCount == 15
WeightExact == 15

calculateMatchScore(prevTabs, currTabs) ==
    LET prevValidTabs == SelectSeq(prevTabs, LAMBDA t : isValidUrl(t.url))
        currValidTabs == SelectSeq(currTabs, LAMBDA t : isValidUrl(t.url))
        doms(ts) == {d \in {extractDomain(ts[i].url) : i \in DOMAIN ts} : TruthyDomain(d)}
        paths(ts) == {p \in {extractPath(ts[i].url) : i \in DOMAIN ts} : TruthyPath(p)}
        urls(ts) == {ts[i].url : i \in DOMAIN ts}
        domainScore == jaccardSimilarity(doms(prevValidTabs), doms(currValidTabs))
        pathScore == jaccardSimilarity(paths(prevValidTabs), paths(currValidTabs))
        countDiff == Abs(Len(prevValidTabs) - Len(currValidTabs))
        maxCount == Max(Len(prevValidTabs), Len(currValidTabs))
        countScore == IF maxCount > 0
                      THEN [num |-> maxCount - countDiff, den |-> maxCount]
                      ELSE [num |-> 1, den |-> 1]
        exactScore == jaccardSimilarity(urls(prevValidTabs), urls(currValidTabs))
        D == domainScore.den * pathScore.den * countScore.den * exactScore.den
        one == [num |-> 1, den |-> 1]
        zero == [num |-> 0, den |-> 1]
    IN IF Len(prevValidTabs) = 0 /\ Len(currValidTabs) = 0
       THEN [num |-> 1, den |-> 1, parts |-> <<one, one, one, one>>]
       ELSE IF Len(prevValidTabs) = 0 \/ Len(currValidTabs) = 0
       THEN [num |-> 0, den |-> 1, parts |-> <<zero, zero, zero, zero>>]
       ELSE [num |-> WeightDomain * domainScore.num * (D \div domainScore.den)
                     + WeightPath * pathScore.num * (D \div pathScore.den)
                     + WeightCount * countScore.num * (D \div countScore.den)
                     + WeightExact * exactScore.num * (D \div exactScore.den),
             den |-> 100 * D,
             parts |-> <<domainScore, pathScore, countScore, exactScore>>]

ScoreLess(a, b) == a.num * b.den < b.num * a.den

\* the two scores are computed from equal components, hence are one double
SameDouble(a, b) ==
    \A i \in 1..4 : a.parts[i].num * b.parts[i].den = b.parts[i].num * a.parts[i].den

\* MATCH_THRESHOLD = 0.35 = 7/20
BelowThreshold(score) == score.num * 20 < 7 * score.den

groupTabsByWindow(tabs, windowId) == SelectSeq(tabs, LAMBDA t : t.windowId = windowId)

PairScores(orphanWindows, currentWindows, orphanTabs, currentTabs) ==
    LET n == Len(currentWindows)
    IN [k \in 1..(Len(orphanWindows) * n) |->
          LET orphanWin == orphanWindows[((k - 1) \div n) + 1]
              currWin == currentWindows[((k - 1) % n) + 1]
          IN [orphanWindow |-> orphanWin,
              currentWindow |-> currWin,
              score |-> calculateMatchScore(groupTabsByWindow(orphanTabs, orphanWin.id),
                                            groupTabsByWindow(currentTabs, currWin.id))]]

\* scores.sort((a, b) => b.score - a.score): descending and stable.  The
\* result is the set of orders the sort can produce: pairs whose scores are
\* the same double keep their order, pairs whose scores are equal exactly
\* but computed from different components go either way.
\* the pairs left in the order they were pushed
SortKeepOrder(s, S) == {SubSeq(s, 1, Len(s))}

RECURSIVE SortByScoreDesc(_, _)
SortByScoreDesc(s, S) ==
    IF S = {} THEN {<<>>}
    ELSE LET heads == {i \in S :
                         /\ \A j \in S : ~ScoreLess(s[i].score, s[j].score)
                         /\ \A j \in S : j < i => ~SameDouble(s[j].score, s[i].score)}
         IN UNION {{<<s[i]>> \o t : t \in SortByScoreDesc(s, S \ {i})} : i \in heads}

AlreadyUsedOrphanOnly(matched, p) ==
    \E i \in DOMAIN matched : matched[i].orphanWindow.id = p.orphanWindow.id

AlreadyUsed(matched, p) ==
    \E i \in DOMAIN matched :
        \/ matched[i].orphanWindow.id = p.orphanWindow.id
        \/ matched[i].currentWindow.id = p.currentWindow.id

RECURSIVE GreedyMatch(_, _, _, _)
GreedyMatch(scores, matched, orphanTabs, currentTabs) ==
    IF scores = <<>> THEN matched
    ELSE LET p == Head(scores)
         IN IF BelowThreshold(p.score) \/ AlreadyUsed(matched, p)
            THEN GreedyMatch(Tail(scores), matched, orphanTabs, currentTabs)
            ELSE GreedyMatch(Tail(scores),
                     Append(matched,
                         [orphanWindow |-> p.orphanWindow,
                          currentWindow |-> p.currentWindow,
                          confidence |-> p.score,
                          orphanTabs |-> groupTabsByWindow(orphanTabs, p.orphanWindow.id),
                          currentTabs |-> groupTabsByWindow(currentTabs, p.currentWindow.id)]),
                     orphanTabs, currentTabs)

\* the set of results findBestMatches can return (one per order of the sort)
findBestMatches(orphanWindows, currentWindows, orphanTabs, currentTabs) ==
    LET pairs == PairScores(orphanWindows, currentWindows, orphanTabs, currentTabs)
    IN {LET matched == GreedyMatch(scores, <<>>, orphanTabs, currentTabs)
            usedOrphan == {matched[i].orphanWindow.id : i \in DOMAIN matched}
            usedCurrent == {matched[i].currentWindow.id : i \in DOMAIN matched}
        IN [matched |-> matched,
            unmatchedOrphans |-> SelectSeq(orphanWindows, LAMBDA w : w.id \notin usedOrphan),
            unmatchedCurrent |-> SelectSeq(currentWindows, LAMBDA w : w.id \notin usedCurrent)]
        : scores \in SortByScoreDesc(pairs, DOMAIN pairs)}

(***************************************************************************)
(* Bounds of the lifecycle model.                                          *)
(***************************************************************************)
PollRetries == 2        \* iterations of the polling loop (50 in the code)
MaxRuns == 2            \* runs of initialize that overlap
MaxCreated == 1         \* windows the user opens
MaxClosed == 1          \* windows the user closes
MaxRestoreCalls == 1    \* RESTORE_UNMATCHED_WINDOW messages
MaxMovesDuringRun == 1  \* of these, the ones made while initialize is running
MaxNavigated == 1       \* URL-change events of tabs

(***************************************************************************)
(* State                                                                   *)
(***************************************************************************)
VARIABLES
    db,                  \* the store: openWindows, openTabs, tabGroups, sessions,
                         \* the settings recoveryResult and activeAnchorWindowId,
                         \* and the anchorWindow table
    chrome,              \* the browser: windows, tabs, tabGroups, alarms, next id
    sm,                  \* SessionManager: currentSessionId, isInitialized,
                         \* restoringTabIds
    run,                 \* the runs of SessionManager.initialize in progress
    tick,                \* per run, the parity of the steps it has taken
    listenersRegistered, \* the tab/window/group listeners are registered
    pendingCreated,      \* creation events whose handlers have not written yet
    env,                 \* counters of the environment's moves
    lastRestore,         \* <<result>> of the last restoreUnmatchedWindow call
    mIn,                 \* matcher harness: the inputs of findBestMatches
    mOut,                \* matcher harness: <<result>> after the call, <<>> before
    now,                 \* Date.now(), in milliseconds
    tt,                  \* TimeTracker: activeTabId, activeWindowId, lastActiveTime,
                         \* isWindowFocused
    calls,               \* invocations of handlers and methods suspended at an await
    log                  \* <<what the last handler step did>>, <<>> before any

vars == <<db, chrome, sm, run, tick, listenersRegistered, pendingCreated, env,
          lastRestore, mIn, mOut, now, tt, calls, log>>

\* what the session lifecycle leaves alone
auxVars == <<mIn, mOut, now, tt, calls, log>>

lifecycleVars == <<db, chrome, sm, run, tick, listenersRegistered, pendingCreated, env,
                   lastRestore>>

Runs == 1..MaxRuns

\* the environment has not moved
NoMoves ==
    [created |-> 0, closed |-> 0, restoreCalls |-> 0, duringRun |-> 0, deferred |-> FALSE,
     navigated |-> 0, tabsCreated |-> 0, tabsClosed |-> 0, groupsClosed |-> 0,
     groupsCreated |-> 0, focusChanges |-> 0, activations |-> 0,
     anchorSets |-> 0, anchorClears |-> 0, anchorUpdates |-> 0, anchorAdds |-> 0, pendingActions |-> 0]

\* Date.now() when the worker starts
StartTime == 1000

\* the TimeTracker after construction
NewTimeTracker ==
    [activeTabId |-> 0, activeWindowId |-> 0, lastActiveTime |-> 0, isWindowFocused |-> TRUE]

(***************************************************************************)
(* Tables: functions from primary key to record.                           *)
(***************************************************************************)
\* Table.put: insert, or overwrite the record with the same primary key
Put(table, id, rec) ==
    [x \in (DOMAIN table) \cup {id} |-> IF x = id THEN rec ELSE table[x]]

\* Table.delete / Collection.delete
Remove(table, ids) == [x \in (DOMAIN table) \ ids |-> table[x]]

PutAll(table, ids, rec(_)) ==
    [x \in (DOMAIN table) \cup ids |-> IF x \in ids THEN rec(x) ELSE table[x]]

MapSeq(s, f(_)) == [i \in DOMAIN s |-> f(s[i])]

\* toArray(): rows in primary-key order, each with its key
Rows(table, keep(_)) ==
    MapSeq(SetToSeq({x \in DOMAIN table : keep(x)}),
           LAMBDA x : [id |-> x] @@ table[x])

(***************************************************************************)
(* DB                                                                      *)
(***************************************************************************)
getNonOrphanWindows(d) == Rows(d.openWindows, LAMBDA x : d.openWindows[x].isOrphan # 1)
getOrphanWindows(d) == Rows(d.openWindows, LAMBDA x : d.openWindows[x].isOrphan = 1)
getNonOrphanTabs(d) == Rows(d.openTabs, LAMBDA x : d.openTabs[x].isOrphan # 1)
getOrphanTabs(d) == Rows(d.openTabs, LAMBDA x : d.openTabs[x].isOrphan = 1)

getOrphanTabsByWindowId(d, windowId) ==
    Rows(d.openTabs, LAMBDA x : d.openTabs[x].windowId = windowId
                                /\ d.openTabs[x].isOrphan = 1)

getOrphanTabGroupsByWindowId(d, windowId) ==
    Rows(d.tabGroups, LAMBDA x : d.tabGroups[x].windowId = windowId
                                 /\ d.tabGroups[x].isOrphan = 1)

addWindow(d, id, rec) == [d EXCEPT !.openWindows = Put(@, id, rec)]
addTab(d, id, rec) == [d EXCEPT !.openTabs = Put(@, id, rec)]

\* Table.update changes nothing when the key is absent
updateWindowTitle(d, id, title) ==
    IF id \in DOMAIN d.openWindows
    THEN [d EXCEPT !.openWindows[id].title = title] ELSE d

updateTabTime(d, id, t) ==
    IF id \in DOMAIN d.openTabs
    THEN [d EXCEPT !.openTabs[id].timeAccumulated = t] ELSE d

\* Table.update with several fields
updateTab(d, id, updates) ==
    IF id \in DOMAIN d.openTabs
    THEN [d EXCEPT !.openTabs[id] =
             [f \in DOMAIN @ |-> IF f \in DOMAIN updates THEN updates[f] ELSE @[f]]]
    ELSE d

\* updateTabGroup that writes nothing
updateTabGroupTitleKept(d, id, title) == d

updateTabGroupTitle(d, id, title) ==
    IF id \in DOMAIN d.tabGroups
    THEN [d EXCEPT !.tabGroups[id].title = title] ELSE d

\* removeTabGroup that deletes nothing
removeTabGroupsKept(d, ids) == d

removeTabGroups(d, ids) == [d EXCEPT !.tabGroups = Remove(@, ids)]

getActiveSession(d) ==
    LET active == {i \in DOMAIN d.sessions : d.sessions[i] = 1}
    IN IF active = {} THEN 0 ELSE CHOOSE i \in active : \A j \in active : i <= j

\* the new store and the id of the session added
createSession(d) ==
    LET a == getActiveSession(d)
        deactivated == IF a = 0 THEN d.sessions ELSE [d.sessions EXCEPT ![a] = 0]
    IN [d EXCEPT !.sessions = Append(deactivated, 1)]

\* the three sweeps of markAllCurrentAsOrphans, each its own store operation
markTabsAsOrphans(d) ==
    [d EXCEPT !.openTabs = [x \in DOMAIN @ |-> [@[x] EXCEPT !.isOrphan = 1]]]

markWindowsAsOrphans(d) ==
    [d EXCEPT !.openWindows = [x \in DOMAIN @ |-> [@[x] EXCEPT !.isOrphan = 1]]]

markTabGroupsAsOrphans(d) ==
    [d EXCEPT !.tabGroups = [x \in DOMAIN @ |-> [@[x] EXCEPT !.isOrphan = 1]]]

deleteOrphanWindow(d, windowId) ==
    [d EXCEPT !.openTabs = Remove(@, {x \in DOMAIN @ : @[x].windowId = windowId}),
              !.openWindows = Remove(@, {windowId})]

\* updateAnchorWindow: no row, no change
updateAnchorWindow(d, data) ==
    IF d.anchorWindow = <<>> THEN d ELSE [d EXCEPT !.anchorWindow = <<data>>]

(***************************************************************************)
(* Recovery result setting                                                 *)
(***************************************************************************)
\* updateRecoveryResult: dismiss when no unmatched window is left
updateRecoveryResult(d, updatedResult) ==
    IF Len(updatedResult.unmatchedOrphans) = 0
    THEN [d EXCEPT !.recoveryResult = <<>>]
    ELSE [d EXCEPT !.recoveryResult = <<updatedResult>>]

removeUnmatchedFromRecovery(d, windowId) ==
    IF d.recoveryResult = <<>> THEN d
    ELSE LET result == d.recoveryResult[1]
         IN updateRecoveryResult(d,
                [result EXCEPT !.unmatchedOrphans =
                    SelectSeq(@, LAMBDA w : w.windowId # windowId)])

\* window ids listed as unmatched in the pending recovery result
PendingIds(d) ==
    IF d.recoveryResult = <<>> THEN {}
    ELSE {d.recoveryResult[1].unmatchedOrphans[i].windowId :
              i \in DOMAIN d.recoveryResult[1].unmatchedOrphans}

(***************************************************************************)
(* Browser                                                                 *)
(***************************************************************************)
NormalWindowIds(c) == {w \in DOMAIN c.windows : c.windows[w].type = "normal"}

\* chrome.tabs.query({windowId}): the tabs of a window in id order
TabsInWindow(c, windowId) ==
    Rows(c.tabs, LAMBDA x : c.tabs[x].windowId = windowId)

\* chrome.windows.create + chrome.tabs.create: a normal window holding one tab
\* per url; the window takes the next id, its tabs the ids after it
OpenWindow(c, urls) ==
    LET w == c.nextId
    IN [c EXCEPT !.windows = Put(@, w, [type |-> "normal"]),
                 !.tabs = PutAll(@, {w + i : i \in 1..Len(urls)},
                                 LAMBDA x : [windowId |-> w, url |-> urls[x - w],
                                             groupId |-> 0]),
                 !.nextId = w + Len(urls) + 1]

CloseWindow(c, w) ==
    [c EXCEPT !.windows = Remove(@, {w}),
              !.tabs = Remove(@, {x \in DOMAIN @ : @[x].windowId = w}),
              !.tabGroups = Remove(@, {x \in DOMAIN @ : @[x].windowId = w})]

\* the creation event of window w: the window and the tabs it was opened with
CreatedEvent(c, w) ==
    [id |-> w, tabs |-> TabsInWindow(c, w)]


(***************************************************************************)
(* SessionManager                                                          *)
(***************************************************************************)
\* a tab counts as restoring for 10 seconds after it was marked
RestoringWindow == 10000

\* markTabAsRestoring for each of the tabs: the map entry is the time of the mark
markTabsAsRestoring(s, tabIds) ==
    [s EXCEPT !.restoringTabIds =
        [x \in (DOMAIN @) \cup tabIds |-> IF x \in tabIds THEN now ELSE @[x]]]

\* isTabRestoring with no expiry
isTabRestoringForever(s, tabId) == tabId \in DOMAIN s.restoringTabIds

isTabRestoring(s, tabId) ==
    /\ tabId \in DOMAIN s.restoringTabIds
    /\ ~(now - s.restoringTabIds[tabId] > RestoringWindow)

\* isTabRestoring drops the entry it finds expired
dropExpired(s, tabId) ==
    IF tabId \in DOMAIN s.restoringTabIds /\ ~isTabRestoring(s, tabId)
    THEN [s EXCEPT !.restoringTabIds = [x \in (DOMAIN @) \ {tabId} |-> @[x]]]
    ELSE s

MinOf(S) == CHOOSE x \in S : \A y \in S : x <= y

\* JavaScript truthiness of a title
Truthy(title) == title # ""

\* the store and the manager after getSessionId()
getSessionId(d, s) ==
    IF s.currentSessionId # 0 THEN [db |-> d, sm |-> s]
    ELSE IF getActiveSession(d) # 0
    THEN [db |-> d, sm |-> [s EXCEPT !.currentSessionId = getActiveSession(d)]]
    ELSE [db |-> createSession(d),
          sm |-> [s EXCEPT !.currentSessionId = Len(d.sessions) + 1]]

\* the variant that reports a restart whenever windows are stored and live
detectBrowserRestartNoCompare(storedIds, browserWindowIds) ==
    IF storedIds = {} THEN [isRestart |-> FALSE, reason |-> ""]
    ELSE IF browserWindowIds = {}
    THEN [isRestart |-> FALSE, reason |-> "no_normal_windows"]
    ELSE [isRestart |-> TRUE, reason |-> ""]

\* the outcome of detectBrowserRestart from the stored non-orphan window ids
\* and the ids of the normal windows the polling returned
detectBrowserRestart(storedIds, browserWindowIds) ==
    IF storedIds = {} THEN [isRestart |-> FALSE, reason |-> ""]
    ELSE IF browserWindowIds = {}
    THEN [isRestart |-> FALSE, reason |-> "no_normal_windows"]
    ELSE IF storedIds \cap browserWindowIds = {}
    THEN [isRestart |-> TRUE, reason |-> ""]
    ELSE [isRestart |-> FALSE, reason |-> ""]

NewWindowRecord(title) == [isOrphan |-> 0, title |-> title]

NewTabRecord(tab, windowId, timeAccumulated) ==
    [windowId |-> windowId, isOrphan |-> 0, url |-> tab.url,
     timeAccumulated |-> timeAccumulated, lastAccessed |-> now, groupId |-> tab.groupId]

NewTabGroupRecord(group) ==
    [windowId |-> group.windowId, isOrphan |-> 0, title |-> group.title]

\* performRecovery, "Add current browser state to DB"
insertBrowserState(d, c, browserWindows) ==
    [d EXCEPT
        !.openWindows = PutAll(@, browserWindows, LAMBDA w : NewWindowRecord("")),
        !.openTabs = PutAll(@, DOMAIN c.tabs,
                            LAMBDA t : NewTabRecord(c.tabs[t], c.tabs[t].windowId, 0)),
        !.tabGroups = PutAll(@, DOMAIN c.tabGroups,
                             LAMBDA g : NewTabGroupRecord(c.tabGroups[g]))]

RECURSIVE transferTabTimeData(_, _, _)
transferTabTimeData(d, orphanTabs, currentTabs) ==
    IF currentTabs = <<>> THEN d
    ELSE LET currentTab == Head(currentTabs)
             found == {i \in DOMAIN orphanTabs : orphanTabs[i].url = currentTab.url}
             d1 == IF found # {}
                   THEN IF orphanTabs[MinOf(found)].timeAccumulated > 0
                        THEN updateTabTime(d, currentTab.id,
                                           orphanTabs[MinOf(found)].timeAccumulated)
                        ELSE d
                   ELSE d
         IN transferTabTimeData(d1, orphanTabs, Tail(currentTabs))

\* group ids in the order a Map built over the tabs first sees them
GroupIdsOf(tabs, allowed) ==
    LET idx == {i \in DOMAIN tabs :
                   /\ tabs[i].groupId # 0
                   /\ tabs[i].groupId \in allowed
                   /\ \A j \in 1..(i - 1) : tabs[j].groupId # tabs[i].groupId}
    IN MapSeq(SetToSeq(idx), LAMBDA i : tabs[i].groupId)

UrlsOfGroup(tabs, g) ==
    MapSeq(SelectSeq(tabs, LAMBDA t : t.groupId = g), LAMBDA t : t.url)

GroupMatchLess(a, b) == a.matchCount * b.size < b.matchCount * a.size

InsertGroupMatch(sorted, x) ==
    LET k == Cardinality({i \in DOMAIN sorted : ~GroupMatchLess(sorted[i], x)})
    IN SubSeq(sorted, 1, k) \o <<x>> \o SubSeq(sorted, k + 1, Len(sorted))

RECURSIVE SortGroupMatches(_)
SortGroupMatches(s) ==
    IF s = <<>> THEN <<>>
    ELSE InsertGroupMatch(SortGroupMatches(SubSeq(s, 1, Len(s) - 1)), s[Len(s)])

RECURSIVE AssignGroups(_, _, _, _, _)
AssignGroups(dc, matches, usedCurrent, usedOrphan, titleOf) ==
    IF matches = <<>> THEN dc
    ELSE LET m == Head(matches)
         IN IF m.currentGroupId \in usedCurrent \/ m.orphanGroupId \in usedOrphan
            THEN AssignGroups(dc, Tail(matches), usedCurrent, usedOrphan, titleOf)
            ELSE LET title == titleOf[m.orphanGroupId]
                     applied ==
                         IF Truthy(title) /\ m.currentGroupId \in DOMAIN dc.chrome.tabGroups
                         THEN [db |-> updateTabGroupTitle(dc.db, m.currentGroupId, title),
                               chrome |-> [dc.chrome EXCEPT
                                   !.tabGroups[m.currentGroupId].title = title]]
                         ELSE dc
                 IN AssignGroups(applied, Tail(matches),
                                 usedCurrent \cup {m.currentGroupId},
                                 usedOrphan \cup {m.orphanGroupId}, titleOf)

\* the scored pairs of a current and an orphan group with a common URL,
\* sorted by score
groupMatches(orphanGroupIds, orphanTabs, currentTabs) ==
    LET cIds == GroupIdsOf(currentTabs, {currentTabs[i].groupId : i \in DOMAIN currentTabs})
        oIds == GroupIdsOf(orphanTabs, orphanGroupIds)
        n == Len(oIds)
        all == [k \in 1..(Len(cIds) * n) |->
                   LET cg == cIds[((k - 1) \div n) + 1]
                       og == oIds[((k - 1) % n) + 1]
                       currentUrls == UrlsOfGroup(currentTabs, cg)
                       orphanUrls == UrlsOfGroup(orphanTabs, og)
                   IN [currentGroupId |-> cg,
                       orphanGroupId |-> og,
                       matchCount |-> Cardinality({i \in DOMAIN currentUrls :
                                          currentUrls[i] \in SeqToSet(orphanUrls)}),
                       size |-> Max(Len(currentUrls), Len(orphanUrls))]]
    IN SortGroupMatches(SelectSeq(all, LAMBDA m : m.matchCount > 0))

\* the pairs the greedy loop accepts: those it adds to matchedCurrentGroups
\* and matchedOrphanGroups
RECURSIVE acceptedGroupPairs(_, _, _)
acceptedGroupPairs(matches, usedCurrent, usedOrphan) ==
    IF matches = <<>> THEN <<>>
    ELSE LET m == Head(matches)
         IN IF m.currentGroupId \in usedCurrent \/ m.orphanGroupId \in usedOrphan
            THEN acceptedGroupPairs(Tail(matches), usedCurrent, usedOrphan)
            ELSE <<m>> \o acceptedGroupPairs(Tail(matches),
                                             usedCurrent \cup {m.currentGroupId},
                                             usedOrphan \cup {m.orphanGroupId})

\* the store and the browser after restoreTabGroupTitles
restoreTabGroupTitles(d, c, orphanWindowId, currentWindowId, orphanTabs, currentTabs) ==
    LET orphanGroups == getOrphanTabGroupsByWindowId(d, orphanWindowId)
        currentGroups == {g \in DOMAIN c.tabGroups :
                             c.tabGroups[g].windowId = currentWindowId}
        orphanGroupIds == {orphanGroups[i].id : i \in DOMAIN orphanGroups}
        titleOf == [g \in orphanGroupIds |->
                       orphanGroups[CHOOSE i \in DOMAIN orphanGroups : orphanGroups[i].id = g].title]
        matches == groupMatches(orphanGroupIds, orphanTabs, currentTabs)
    IN IF Len(orphanGroups) = 0 \/ currentGroups = {}
       THEN [db |-> d, chrome |-> c]
       ELSE AssignGroups([db |-> d, chrome |-> c], matches, {}, {}, titleOf)

\* one iteration of performRecovery's loop over the matched pairs
transferMatch(d, c, match) ==
    LET d1 == IF Truthy(match.orphanWindow.title)
              THEN updateWindowTitle(d, match.currentWindow.id, match.orphanWindow.title)
              ELSE d
        d2 == transferTabTimeData(d1, match.orphanTabs, match.currentTabs)
        dc == restoreTabGroupTitles(d2, c, match.orphanWindow.id, match.currentWindow.id,
                                    match.orphanTabs, match.currentTabs)
        d3 == deleteOrphanWindow(dc.db, match.orphanWindow.id)
        orphanGroups == getOrphanTabGroupsByWindowId(d3, match.orphanWindow.id)
    IN [db |-> removeTabGroups(d3, {orphanGroups[i].id : i \in DOMAIN orphanGroups}),
        chrome |-> dc.chrome]

TitleOrUntitled(title) == IF Truthy(title) THEN title ELSE "Untitled Window"

\* the value performRecovery returns
recoveryResultOf(matchResult, orphanTabs) ==
    [matched |-> MapSeq(matchResult.matched,
                        LAMBDA m : [title |-> TitleOrUntitled(m.orphanWindow.title),
                                    tabCount |-> Len(m.orphanTabs)]),
     unmatchedOrphans |-> MapSeq(matchResult.unmatchedOrphans,
                        LAMBDA w : [windowId |-> w.id,
                                    title |-> TitleOrUntitled(w.title),
                                    tabs |-> MapSeq(SelectSeq(orphanTabs,
                                                        LAMBDA t : t.windowId = w.id),
                                                    LAMBDA t : t.url)])]

\* the result of performRecovery when the second polling finds no window
EmptyRecoveryResult == [matched |-> <<>>, unmatchedOrphans |-> <<>>]

\* the synchronisation that only adds what is missing
syncCurrentBrowserStateAddOnly(d, c) ==
    [d EXCEPT
        !.openWindows = PutAll(@, (DOMAIN c.windows)
                                     \ {x \in DOMAIN @ : @[x].isOrphan # 1},
                               LAMBDA w : NewWindowRecord("")),
        !.openTabs = PutAll(@, (DOMAIN c.tabs) \ {x \in DOMAIN @ : @[x].isOrphan # 1},
                            LAMBDA t : NewTabRecord(c.tabs[t], c.tabs[t].windowId, 0)),
        !.tabGroups = PutAll(@, (DOMAIN c.tabGroups)
                                   \ {x \in DOMAIN @ : @[x].isOrphan # 1},
                             LAMBDA g : NewTabGroupRecord(c.tabGroups[g]))]

syncCurrentBrowserState(d, c) ==
    LET storedWindowIds == {x \in DOMAIN d.openWindows : d.openWindows[x].isOrphan # 1}
        storedTabIds == {x \in DOMAIN d.openTabs : d.openTabs[x].isOrphan # 1}
        storedGroupIds == {x \in DOMAIN d.tabGroups : d.tabGroups[x].isOrphan # 1}
        added ==
            [d EXCEPT
                !.openWindows = PutAll(@, (DOMAIN c.windows) \ storedWindowIds,
                                       LAMBDA w : NewWindowRecord("")),
                !.openTabs = PutAll(@, (DOMAIN c.tabs) \ storedTabIds,
                                    LAMBDA t : NewTabRecord(c.tabs[t], c.tabs[t].windowId, 0)),
                !.tabGroups = PutAll(@, (DOMAIN c.tabGroups) \ storedGroupIds,
                                     LAMBDA g : NewTabGroupRecord(c.tabGroups[g]))]
    IN [added EXCEPT
           !.openTabs = Remove(@, storedTabIds \ DOMAIN c.tabs),
           !.openWindows = Remove(@, storedWindowIds \ DOMAIN c.windows),
           !.tabGroups = Remove(@, storedGroupIds \ DOMAIN c.tabGroups)]

(***************************************************************************)
(* Anchor window                                                           *)
(***************************************************************************)
SavedUrls(anchorConfig) ==
    {anchorConfig.tabs[i].url : i \in DOMAIN anchorConfig.tabs} \ {NoUrl}

\* a test that lets every score through
anchorEligibleAny(matches, size) == TRUE

\* score >= 0.5, with score = matches / savedUrls.size
anchorEligible(matches, size) == 2 * matches >= size

\* the loop of findAnchorWindow over the windows in the order getAll returned
\* them; bestMatch is a window id (0 for null), bestScore is kept as the
\* number of matches, the divisor savedUrls.size being the same for all
RECURSIVE findAnchorLoop(_, _, _, _, _)
findAnchorLoop(browserWindows, c, savedUrls, bestMatch, bestMatches) ==
    IF browserWindows = <<>> THEN bestMatch
    ELSE LET win == Head(browserWindows)
             winUrls == {c.tabs[t].url : t \in {x \in DOMAIN c.tabs : c.tabs[x].windowId = win}}
                        \ {NoUrl}
             matches == Cardinality(savedUrls \cap winUrls)
         IN IF anchorEligible(matches, Cardinality(savedUrls)) /\ matches > bestMatches
            THEN findAnchorLoop(Tail(browserWindows), c, savedUrls, win, matches)
            ELSE findAnchorLoop(Tail(browserWindows), c, savedUrls, bestMatch, bestMatches)

findAnchorWindowIn(browserWindows, c, anchorConfig) ==
    IF SavedUrls(anchorConfig) = {} THEN 0
    ELSE findAnchorLoop(browserWindows, c, SavedUrls(anchorConfig), 0, 0)

\* the id of the live window findAnchorWindow returns, 0 for null; the
\* windows are taken in id order
findAnchorWindow(c, anchorConfig) ==
    findAnchorWindowIn(SetToSeq(DOMAIN c.windows), c, anchorConfig)

\* t.url && !t.url.startsWith('chrome://')
Creatable(url) == url # NoUrl /\ url.scheme # "chrome"

\* the saved tab a live tab's url is mapped to: the last one saved with it
SavedTabFor(anchorConfig, url) ==
    LET idx == {i \in DOMAIN anchorConfig.tabs :
                   anchorConfig.tabs[i].url = url /\ url # NoUrl}
    IN IF idx = {} THEN <<>>
       ELSE <<anchorConfig.tabs[CHOOSE i \in idx : \A j \in idx : j <= i]>>

syncAnchorConfig(d, c, windowId, windowTitle) ==
    updateAnchorWindow(d,
        [windowTitle |-> windowTitle,
         tabs |-> MapSeq(TabsInWindow(c, windowId),
                         LAMBDA t : [url |-> t.url,
                                     timeAccumulated |->
                                         IF t.id \in DOMAIN d.openTabs
                                         THEN d.openTabs[t.id].timeAccumulated ELSE 0])])

RECURSIVE forceTabs(_, _, _, _)
forceTabs(d, tabs, windowId, anchorConfig) ==
    IF tabs = <<>> THEN d
    ELSE LET tab == Head(tabs)
             savedTab == SavedTabFor(anchorConfig, tab.url)
             d1 == IF savedTab = <<>> THEN d
                   ELSE IF tab.id \notin DOMAIN d.openTabs
                   THEN addTab(d, tab.id,
                               NewTabRecord(tab, windowId, savedTab[1].timeAccumulated))
                   ELSE IF savedTab[1].timeAccumulated > 0
                   THEN updateTabTime(d, tab.id, savedTab[1].timeAccumulated)
                   ELSE d
         IN forceTabs(d1, Tail(tabs), windowId, anchorConfig)

\* the store and the manager after forceApplyAnchorData
forceApplyAnchorData(d, c, s, windowId, anchorConfig) ==
    LET d1 == IF Truthy(anchorConfig.windowTitle)
              THEN IF windowId \notin DOMAIN d.openWindows
                   THEN addWindow(d, windowId, NewWindowRecord(anchorConfig.windowTitle))
                   ELSE updateWindowTitle(d, windowId, anchorConfig.windowTitle)
              ELSE d
        currentTabs == TabsInWindow(c, windowId)
        d2 == forceTabs(d1, currentTabs, windowId, anchorConfig)
        d3 == [d2 EXCEPT !.activeAnchorWindowId = windowId]
    IN [db |-> syncAnchorConfig(d3, c, windowId, anchorConfig.windowTitle),
        sm |-> markTabsAsRestoring(s, {currentTabs[i].id : i \in
                              {j \in DOMAIN currentTabs :
                                  SavedTabFor(anchorConfig, currentTabs[j].url) # <<>>}})]

\* a sweep that keeps every entry
bannerSweepKept(d, orphans, savedUrls, updatedUnmatched) ==
    [db |-> d, updatedUnmatched |-> orphans]

RECURSIVE bannerSweep(_, _, _, _)
bannerSweep(d, orphans, savedUrls, updatedUnmatched) ==
    IF orphans = <<>> THEN [db |-> d, updatedUnmatched |-> updatedUnmatched]
    ELSE LET orphan == Head(orphans)
             matches == Cardinality(savedUrls \cap SeqToSet(orphan.tabs))
         IN IF 2 * matches >= Cardinality(savedUrls)
            THEN bannerSweep(deleteOrphanWindow(d, orphan.windowId), Tail(orphans),
                             savedUrls, updatedUnmatched)
            ELSE bannerSweep(d, Tail(orphans), savedUrls,
                             Append(updatedUnmatched, orphan))

removeAnchorFromRecoveryBanner(d, anchorConfig) ==
    IF d.recoveryResult = <<>> THEN d
    ELSE IF Len(d.recoveryResult[1].unmatchedOrphans) = 0 \/ SavedUrls(anchorConfig) = {}
    THEN d
    ELSE LET swept == bannerSweep(d, d.recoveryResult[1].unmatchedOrphans,
                                  SavedUrls(anchorConfig), <<>>)
         IN updateRecoveryResult(swept.db,
                [d.recoveryResult[1] EXCEPT !.unmatchedOrphans = swept.updatedUnmatched])

(***************************************************************************)
(* tabs.js: syncAnchorWindowIfNeeded                                       *)
(***************************************************************************)
syncAnchorWindowIfNeeded(d, c, windowId) ==
    IF d.activeAnchorWindowId = 0 \/ d.activeAnchorWindowId # windowId THEN d
    ELSE syncAnchorConfig(d, c, windowId,
                          IF windowId \in DOMAIN d.openWindows
                          THEN d.openWindows[windowId].title ELSE "")


(***************************************************************************)
(* Unmatched-orphan restore                                                *)
(***************************************************************************)
\* the record of a recreated tab after the transfer from its orphan tab
restoredTabData(rec, orphanTab) ==
    [rec EXCEPT !.timeAccumulated = IF orphanTab.timeAccumulated > 0
                                    THEN orphanTab.timeAccumulated ELSE @,
                !.lastAccessed = IF orphanTab.lastAccessed # 0
                                 THEN orphanTab.lastAccessed ELSE @]

\* the store, the browser, the manager and the result after
\* restoreUnmatchedWindow(orphanWindowId); createFails: chrome.windows.create
\* rejects
restoreUnmatchedWindow(d, c, s, orphanWindowId, createFails) ==
    LET orphanTabs == getOrphanTabsByWindowId(d, orphanWindowId)
        orphanGroups == getOrphanTabGroupsByWindowId(d, orphanWindowId)
        orphanGroupIds == {orphanGroups[i].id : i \in DOMAIN orphanGroups}
        validTabs == SelectSeq(orphanTabs, LAMBDA t : Creatable(t.url))
        dropped == removeUnmatchedFromRecovery(deleteOrphanWindow(d, orphanWindowId),
                                               orphanWindowId)
        newWindowId == c.nextId
        c1 == OpenWindow(c, MapSeq(validTabs, LAMBDA t : t.url))
        newTabIds == {newWindowId + i : i \in DOMAIN validTabs}
        d1 == [d EXCEPT !.openTabs =
                  [x \in DOMAIN @ |->
                      IF x \in newTabIds
                      THEN restoredTabData(@[x], validTabs[x - newWindowId])
                      ELSE @[x]]]
        toGroup == GroupIdsOf(validTabs, orphanGroupIds)
        newGroupId(g) == c1.nextId - 1 + CHOOSE j \in DOMAIN toGroup : toGroup[j] = g
        c2 == [c1 EXCEPT
                  !.tabs = [x \in DOMAIN @ |->
                               IF x \in newTabIds
                                  /\ validTabs[x - newWindowId].groupId \in SeqToSet(toGroup)
                               THEN [@[x] EXCEPT !.groupId =
                                        newGroupId(validTabs[x - newWindowId].groupId)]
                               ELSE @[x]],
                  !.tabGroups = PutAll(@, {newGroupId(g) : g \in SeqToSet(toGroup)},
                                  LAMBDA n : [windowId |-> newWindowId,
                                              title |-> d.tabGroups[toGroup[n - c1.nextId + 1]].title]),
                  !.nextId = @ + Len(toGroup)]
        d2 == IF orphanWindowId \in DOMAIN d.openWindows
              THEN IF Truthy(d.openWindows[orphanWindowId].title)
                   THEN updateWindowTitle(d1, newWindowId, d.openWindows[orphanWindowId].title)
                   ELSE d1
              ELSE d1
        d3 == removeTabGroups(deleteOrphanWindow(d2, orphanWindowId), orphanGroupIds)
    IN IF Len(orphanTabs) = 0 \/ Len(validTabs) = 0
       THEN [db |-> dropped, chrome |-> c, sm |-> s, success |-> FALSE, windowId |-> 0]
       ELSE IF createFails
       THEN [db |-> d, chrome |-> c, sm |-> s, success |-> FALSE, windowId |-> 0]
       ELSE [db |-> removeUnmatchedFromRecovery(d3, orphanWindowId),
             chrome |-> c2,
             sm |-> markTabsAsRestoring(s, newTabIds),
             success |-> TRUE, windowId |-> newWindowId]

(***************************************************************************)
(* Runs of SessionManager.initialize                                       *)
(***************************************************************************)
IdleRun ==
    [pc |-> "idle", isMain |-> FALSE, storedIds |-> {}, liveIds |-> {}, polls |-> 0,
     detection |-> <<>>, matchResult |-> <<>>, result |-> <<>>, k |-> 0,
     anchorConfig |-> <<>>, target |-> 0, outcome |-> "none"]

Finished(rec, outcome) ==
    [IdleRun EXCEPT !.pc = "done", !.isMain = rec.isMain, !.outcome = outcome]

FreeRuns(runF) == {r \in Runs : runF[r].pc \in {"idle", "done"}}

\* the variant of the listener that never starts a run
DeferredListenerOff(runF, initialized) == runF

\* the deferred-initialization listener of the entry script: a normal window
\* was created; a run is started unless the manager is initialized
DeferredListener(runF, initialized) ==
    IF ~initialized /\ FreeRuns(runF) # {}
    THEN [runF EXCEPT ![MinOf(FreeRuns(runF))] = [IdleRun EXCEPT !.pc = "detect"]]
    ELSE runF

\* the creation events of window w reach the registered listeners
Delivered(pend, registered, c, w) ==
    IF registered THEN pend \cup {CreatedEvent(c, w)} ELSE pend

\* the variant that flags the manager initialized when it defers
deferInitializationFlagged(s) == [s EXCEPT !.isInitialized = TRUE]

\* initialize returns on the 'no_normal_windows' outcome
deferInitialization(s) == s

Detect(r) ==
    /\ run[r].pc = "detect"
    /\ LET stored == {x \in DOMAIN db.openWindows : db.openWindows[x].isOrphan # 1}
       IN run' = [run EXCEPT ![r] =
                     IF stored = {}
                     THEN [@ EXCEPT !.pc = "sync_state",
                                    !.detection = <<detectBrowserRestart({}, {})>>]
                     ELSE [@ EXCEPT !.pc = "poll", !.storedIds = stored, !.polls = 0]]
    /\ UNCHANGED <<db, chrome, sm, listenersRegistered, pendingCreated, env,
                   lastRestore, auxVars>>
    /\ tick' = [tick EXCEPT ![r] = 1 - @]

\* waitForBrowserWindow inside detectBrowserRestart: a normal window is there
PollHit(r) ==
    /\ run[r].pc = "poll"
    /\ run[r].polls < PollRetries
    /\ NormalWindowIds(chrome) # {}
    /\ LET detection == detectBrowserRestart(run[r].storedIds, NormalWindowIds(chrome))
       IN run' = [run EXCEPT ![r] =
                     [@ EXCEPT !.pc = IF detection.isRestart THEN "mark_tabs"
                                      ELSE "sync_state",
                               !.liveIds = NormalWindowIds(chrome),
                               !.detection = <<detection>>]]
    /\ UNCHANGED <<db, chrome, sm, listenersRegistered, pendingCreated, env,
                   lastRestore, auxVars>>
    /\ tick' = [tick EXCEPT ![r] = 1 - @]

PollMiss(r) ==
    /\ run[r].pc \in {"poll", "rec_poll"}
    /\ run[r].polls < PollRetries
    /\ NormalWindowIds(chrome) = {}
    /\ run' = [run EXCEPT ![r].polls = @ + 1]
    /\ UNCHANGED <<db, chrome, sm, listenersRegistered, pendingCreated, env,
                   lastRestore, auxVars>>
    /\ tick' = [tick EXCEPT ![r] = 1 - @]

\* the polling gave up: 'no_normal_windows', initialize returns
PollGiveUp(r) ==
    /\ run[r].pc = "poll"
    /\ run[r].polls = PollRetries
    /\ run' = [run EXCEPT ![r] =
                  [Finished(@, "deferred") EXCEPT
                      !.storedIds = run[r].storedIds,
                      !.detection = <<detectBrowserRestart(run[r].storedIds, {})>>]]
    /\ sm' = deferInitialization(sm)
    /\ listenersRegistered' = (listenersRegistered \/ run[r].isMain)
    /\ env' = [env EXCEPT !.deferred = TRUE]
    /\ UNCHANGED <<db, chrome, pendingCreated, lastRestore, auxVars>>
    /\ tick' = [tick EXCEPT ![r] = 0]

MarkTabs(r) ==
    /\ run[r].pc = "mark_tabs"
    /\ db' = markTabsAsOrphans(db)
    /\ run' = [run EXCEPT ![r].pc = "mark_windows"]
    /\ UNCHANGED <<chrome, sm, listenersRegistered, pendingCreated, env,
                   lastRestore, auxVars>>
    /\ tick' = [tick EXCEPT ![r] = 1 - @]

MarkWindows(r) ==
    /\ run[r].pc = "mark_windows"
    /\ db' = markWindowsAsOrphans(db)
    /\ run' = [run EXCEPT ![r].pc = "mark_groups"]
    /\ UNCHANGED <<chrome, sm, listenersRegistered, pendingCreated, env,
                   lastRestore, auxVars>>
    /\ tick' = [tick EXCEPT ![r] = 1 - @]

MarkTabGroups(r) ==
    /\ run[r].pc = "mark_groups"
    /\ db' = markTabGroupsAsOrphans(db)
    /\ run' = [run EXCEPT ![r].pc = "rec_session"]
    /\ UNCHANGED <<chrome, sm, listenersRegistered, pendingCreated, env,
                   lastRestore, auxVars>>
    /\ tick' = [tick EXCEPT ![r] = 1 - @]

RecSession(r) ==
    /\ run[r].pc = "rec_session"
    /\ db' = createSession(db)
    /\ sm' = [sm EXCEPT !.currentSessionId = Len(db.sessions) + 1]
    /\ run' = [run EXCEPT ![r].pc = "rec_poll", ![r].polls = 0]
    /\ UNCHANGED <<chrome, listenersRegistered, pendingCreated, env,
                   lastRestore, auxVars>>
    /\ tick' = [tick EXCEPT ![r] = 1 - @]

RecPollHit(r) ==
    /\ run[r].pc = "rec_poll"
    /\ run[r].polls < PollRetries
    /\ NormalWindowIds(chrome) # {}
    /\ run' = [run EXCEPT ![r].pc = "rec_insert", ![r].liveIds = NormalWindowIds(chrome)]
    /\ UNCHANGED <<db, chrome, sm, listenersRegistered, pendingCreated, env,
                   lastRestore, auxVars>>
    /\ tick' = [tick EXCEPT ![r] = 1 - @]

\* "No browser windows available for recovery"
RecPollGiveUp(r) ==
    /\ run[r].pc = "rec_poll"
    /\ run[r].polls = PollRetries
    /\ run' = [run EXCEPT ![r].pc = "rec_return", ![r].result = <<EmptyRecoveryResult>>]
    /\ UNCHANGED <<db, chrome, sm, listenersRegistered, pendingCreated, env,
                   lastRestore, auxVars>>
    /\ tick' = [tick EXCEPT ![r] = 1 - @]

RecInsert(r) ==
    /\ run[r].pc = "rec_insert"
    /\ db' = insertBrowserState(db, chrome, run[r].liveIds)
    /\ run' = [run EXCEPT ![r].pc = "rec_match"]
    /\ UNCHANGED <<chrome, sm, listenersRegistered, pendingCreated, env,
                   lastRestore, auxVars>>
    /\ tick' = [tick EXCEPT ![r] = 1 - @]

RecMatch(r) ==
    /\ run[r].pc = "rec_match"
    /\ \E matchResult \in findBestMatches(getOrphanWindows(db), getNonOrphanWindows(db),
                                          getOrphanTabs(db), getNonOrphanTabs(db)) :
          run' = [run EXCEPT ![r] =
                     [@ EXCEPT !.pc = IF Len(matchResult.matched) = 0 THEN "rec_return"
                                      ELSE "rec_transfer",
                               !.k = 1,
                               !.matchResult = <<matchResult>>,
                               !.result = <<recoveryResultOf(matchResult,
                                                             getOrphanTabs(db))>>]]
    /\ UNCHANGED <<db, chrome, sm, listenersRegistered, pendingCreated, env,
                   lastRestore, auxVars>>
    /\ tick' = [tick EXCEPT ![r] = 1 - @]

RecTransfer(r) ==
    /\ run[r].pc = "rec_transfer"
    /\ LET matched == run[r].matchResult[1].matched
           after == transferMatch(db, chrome, matched[run[r].k])
       IN /\ db' = after.db
          /\ chrome' = after.chrome
          /\ run' = [run EXCEPT ![r].k = @ + 1,
                                ![r].pc = IF run[r].k = Len(matched) THEN "rec_return"
                                          ELSE "rec_transfer"]
    /\ UNCHANGED <<sm, listenersRegistered, pendingCreated, env, lastRestore, auxVars>>
    /\ tick' = [tick EXCEPT ![r] = 1 - @]

\* performRecovery returns; initialize saves the result and updates the badge
RecReturn(r) ==
    /\ run[r].pc = "rec_return"
    /\ db' = [db EXCEPT !.recoveryResult = run[r].result]
    /\ run' = [run EXCEPT ![r] = [@ EXCEPT !.pc = "anchor_find", !.matchResult = <<>>,
                                           !.result = <<>>, !.k = 0]]
    /\ UNCHANGED <<chrome, sm, listenersRegistered, pendingCreated, env,
                   lastRestore, auxVars>>
    /\ tick' = [tick EXCEPT ![r] = 1 - @]

\* the no-restart branch of initialize up to the state sync
SyncState(r) ==
    /\ run[r].pc = "sync_state"
    /\ IF getActiveSession(db) = 0
       THEN /\ db' = syncCurrentBrowserState(createSession(db), chrome)
            /\ sm' = [sm EXCEPT !.currentSessionId = Len(db.sessions) + 1]
       ELSE /\ db' = syncCurrentBrowserState(db, chrome)
            /\ sm' = [sm EXCEPT !.currentSessionId = getActiveSession(db)]
    /\ run' = [run EXCEPT ![r].pc = "sync_badge"]
    /\ UNCHANGED <<chrome, listenersRegistered, pendingCreated, env,
                   lastRestore, auxVars>>
    /\ tick' = [tick EXCEPT ![r] = 1 - @]

\* updateBadgeImmediate after the sync
SyncBadge(r) ==
    /\ run[r].pc = "sync_badge"
    /\ run' = [run EXCEPT ![r].pc = "anchor_find"]
    /\ UNCHANGED <<db, chrome, sm, listenersRegistered, pendingCreated, env,
                   lastRestore, auxVars>>
    /\ tick' = [tick EXCEPT ![r] = 1 - @]


\* restoreAnchorWindowIfNeeded up to the window it will force the config onto:
\* no config, a live window found, or a window created from the config
AnchorFind(r) ==
    /\ run[r].pc = "anchor_find"
    /\ IF db.anchorWindow = <<>>
       THEN /\ run' = [run EXCEPT ![r].pc = "finish"]
            /\ UNCHANGED <<chrome, sm, pendingCreated>>
       ELSE LET anchorConfig == db.anchorWindow[1]
                anchorWindowId == findAnchorWindow(chrome, anchorConfig)
                validTabs == SelectSeq(anchorConfig.tabs, LAMBDA t : Creatable(t.url))
                newWindowId == chrome.nextId
                created == OpenWindow(chrome, MapSeq(validTabs, LAMBDA t : t.url))
            IN IF anchorWindowId # 0
               THEN /\ run' = [run EXCEPT ![r].pc = "anchor_force",
                                          ![r].anchorConfig = <<anchorConfig>>,
                                          ![r].target = anchorWindowId]
                    /\ UNCHANGED <<chrome, sm, pendingCreated>>
               ELSE IF Len(validTabs) = 0
               THEN /\ run' = [run EXCEPT ![r].pc = "anchor_banner",
                                          ![r].anchorConfig = <<anchorConfig>>]
                    /\ UNCHANGED <<chrome, sm, pendingCreated>>
               ELSE /\ chrome' = created
                    /\ sm' = markTabsAsRestoring(sm, {newWindowId + i : i \in DOMAIN validTabs})
                    /\ pendingCreated' = Delivered(pendingCreated, listenersRegistered,
                                                   created, newWindowId)
                    /\ run' = DeferredListener(
                                  [run EXCEPT ![r].pc = "anchor_force",
                                              ![r].anchorConfig = <<anchorConfig>>,
                                              ![r].target = newWindowId],
                                  sm.isInitialized)
    /\ UNCHANGED <<db, listenersRegistered, env, lastRestore, auxVars>>
    /\ tick' = [tick EXCEPT ![r] = 1 - @]

AnchorForce(r) ==
    /\ run[r].pc = "anchor_force"
    /\ LET after == forceApplyAnchorData(db, chrome, sm, run[r].target,
                                         run[r].anchorConfig[1])
       IN /\ db' = after.db
          /\ sm' = after.sm
    /\ run' = [run EXCEPT ![r].pc = "anchor_banner"]
    /\ UNCHANGED <<chrome, listenersRegistered, pendingCreated, env,
                   lastRestore, auxVars>>
    /\ tick' = [tick EXCEPT ![r] = 1 - @]

AnchorBanner(r) ==
    /\ run[r].pc = "anchor_banner"
    /\ db' = removeAnchorFromRecoveryBanner(db, run[r].anchorConfig[1])
    /\ run' = [run EXCEPT ![r] = [@ EXCEPT !.pc = "finish", !.anchorConfig = <<>>,
                                           !.target = 0]]
    /\ UNCHANGED <<chrome, sm, listenersRegistered, pendingCreated, env,
                   lastRestore, auxVars>>
    /\ tick' = [tick EXCEPT ![r] = 1 - @]

\* "Mark as initialized"; the entry script then registers the listeners
Finish(r) ==
    /\ run[r].pc = "finish"
    /\ sm' = [sm EXCEPT !.isInitialized = TRUE]
    /\ run' = [run EXCEPT ![r] = Finished(@, "initialized")]
    /\ listenersRegistered' = (listenersRegistered \/ run[r].isMain)
    /\ UNCHANGED <<db, chrome, pendingCreated, env, lastRestore, auxVars>>
    /\ tick' = [tick EXCEPT ![r] = 0]

RecoverySteps == {"mark_tabs", "mark_windows", "mark_groups", "rec_session", "rec_poll",
                  "rec_insert", "rec_match", "rec_transfer", "rec_return"}
UncaughtSteps == {"detect", "poll", "sync_state", "sync_badge"}
AnchorSteps == {"anchor_find", "anchor_force", "anchor_banner"}

\* the store or browser call the run is waiting on rejects: inside
\* performRecovery the try/catch of initialize takes it to the anchor recovery,
\* inside restoreAnchorWindowIfNeeded its own try/catch ends it, anywhere else
\* initialize rejects
RunFail(r) ==
    /\ run[r].pc \in RecoverySteps \cup UncaughtSteps \cup AnchorSteps
    /\ run' = [run EXCEPT ![r] =
                  IF @.pc \in RecoverySteps
                  THEN [IdleRun EXCEPT !.pc = "anchor_find", !.isMain = run[r].isMain]
                  ELSE IF @.pc \in AnchorSteps
                  THEN [IdleRun EXCEPT !.pc = "finish", !.isMain = run[r].isMain]
                  ELSE Finished(@, "rejected")]
    /\ tick' = [tick EXCEPT ![r] = IF run[r].pc \in UncaughtSteps THEN 0 ELSE 1 - @]
    /\ UNCHANGED <<db, chrome, sm, listenersRegistered, pendingCreated, env,
                   lastRestore, auxVars>>

(***************************************************************************)
(* Browser events and their handlers                                       *)
(***************************************************************************)
CreatedUrlLists == {<<UrlA, UrlB>>, <<UrlChrome>>}

\* the user and the popup act freely once no run of initialize is in progress,
\* and a bounded number of times before
MayMove ==
    \/ FreeRuns(run) = Runs
    \/ env.duringRun < MaxMovesDuringRun

\* the move is counted when a run is in progress
Moved(e) == IF FreeRuns(run) = Runs THEN e ELSE [e EXCEPT !.duringRun = @ + 1]

\* the user opens a normal window
WindowCreated(urls) ==
    /\ env.created < MaxCreated
    /\ MayMove
    /\ sm.isInitialized \/ FreeRuns(run) # {}
    /\ chrome' = OpenWindow(chrome, urls)
    /\ pendingCreated' = Delivered(pendingCreated, listenersRegistered,
                                   OpenWindow(chrome, urls), chrome.nextId)
    /\ run' = DeferredListener(run, sm.isInitialized)
    /\ env' = Moved([env EXCEPT !.created = @ + 1])
    /\ UNCHANGED <<db, sm, listenersRegistered, lastRestore, auxVars>>
    /\ UNCHANGED tick

RECURSIVE addEventTabs(_, _, _)
addEventTabs(d, tabs, windowId) ==
    IF tabs = <<>> THEN d
    ELSE addEventTabs(addTab(d, Head(tabs).id, NewTabRecord(Head(tabs), windowId, 0)),
                      Tail(tabs), windowId)

\* windows.onCreated and tabs.onCreated for one created window
HandleCreated(e) ==
    /\ e \in pendingCreated
    /\ LET got == getSessionId(db, sm)
           d1 == addWindow(got.db, e.id, NewWindowRecord(""))
           d2 == addEventTabs(d1, e.tabs, e.id)
       IN /\ db' = syncAnchorWindowIfNeeded(d2, chrome, e.id)
          /\ sm' = got.sm
    /\ chrome' = [chrome EXCEPT !.alarms =
                     @ \ ({<<"remove-window", e.id>>}
                          \cup {<<"remove-tab", e.tabs[i].id>> : i \in DOMAIN e.tabs})]
    /\ pendingCreated' = pendingCreated \ {e}
    /\ UNCHANGED <<run, listenersRegistered, env, lastRestore, auxVars>>
    /\ UNCHANGED tick

\* the user closes a normal window; windows.onRemoved when registered
WindowClosed(w) ==
    /\ w \in NormalWindowIds(chrome)
    /\ env.closed < MaxClosed
    /\ MayMove
    /\ chrome' = [CloseWindow(chrome, w) EXCEPT
                     !.alarms = IF listenersRegistered
                                THEN @ \cup {<<"remove-window", w>>} ELSE @]
    /\ db' = IF listenersRegistered /\ db.activeAnchorWindowId = w
             THEN [db EXCEPT !.activeAnchorWindowId = 0] ELSE db
    /\ env' = Moved([env EXCEPT !.closed = @ + 1])
    /\ UNCHANGED <<sm, run, listenersRegistered, pendingCreated, lastRestore, auxVars>>
    /\ UNCHANGED tick

\* the alarm remove-window-<w> fires
AlarmFires(w) ==
    /\ <<"remove-window", w>> \in chrome.alarms
    /\ db' = [db EXCEPT
                 !.openWindows = Remove(@, {w}),
                 !.openTabs = Remove(@, {x \in DOMAIN @ : @[x].windowId = w})]
    /\ chrome' = [chrome EXCEPT !.alarms = @ \ {<<"remove-window", w>>}]
    /\ UNCHANGED <<sm, run, listenersRegistered, pendingCreated, env,
                   lastRestore, auxVars>>
    /\ UNCHANGED tick

\* the RESTORE_UNMATCHED_WINDOW message for a window of the recovery banner
RestoreUnmatchedWindow(w, createFails) ==
    /\ w \in PendingIds(db)
    /\ env.restoreCalls < MaxRestoreCalls
    /\ MayMove
    /\ LET after == restoreUnmatchedWindow(db, chrome, sm, w, createFails)
       IN /\ db' = after.db
          /\ chrome' = after.chrome
          /\ sm' = after.sm
          /\ lastRestore' = <<[windowId |-> w, success |-> after.success,
                               call |-> env.restoreCalls + 1]>>
          /\ pendingCreated' = IF after.windowId # 0
                               THEN Delivered(pendingCreated, listenersRegistered,
                                              after.chrome, after.windowId)
                               ELSE pendingCreated
          /\ run' = IF after.windowId # 0 THEN DeferredListener(run, sm.isInitialized)
                    ELSE run
          /\ env' = Moved([env EXCEPT !.restoreCalls = @ + 1])
    /\ UNCHANGED <<listenersRegistered, auxVars>>
    /\ UNCHANGED tick

(***************************************************************************)
(* Initial states: what the previous process left in the store, and the    *)
(* windows the browser shows when the worker starts.                       *)
(***************************************************************************)
EmptyDb ==
    [openWindows |-> <<>>, openTabs |-> <<>>, tabGroups |-> <<>>, sessions |-> <<>>,
     recoveryResult |-> <<>>, anchorWindow |-> <<>>, activeAnchorWindowId |-> 0]

\* Date.now() when the previous process wrote its tab records
StoredAccessTime == 500

StoredTab(windowId, url, timeAccumulated, groupId) ==
    [windowId |-> windowId, isOrphan |-> 0, url |-> url,
     timeAccumulated |-> timeAccumulated, lastAccessed |-> StoredAccessTime,
     groupId |-> groupId]

\* window 1 "Work" with two tabs, the first in group 201
StoredWork ==
    [EmptyDb EXCEPT
        !.openWindows = (1 :> NewWindowRecord("Work")),
        !.openTabs = (101 :> StoredTab(1, UrlA, 5, 201)) @@ (102 :> StoredTab(1, UrlB, 0, 0)),
        !.tabGroups = (201 :> [windowId |-> 1, isOrphan |-> 0, title |-> "G"]),
        !.sessions = <<1>>]

\* and window 2, untitled, showing an internal page
StoredWorkAndInternal ==
    [StoredWork EXCEPT
        !.openWindows = @ @@ (2 :> NewWindowRecord("")),
        !.openTabs = @ @@ (103 :> StoredTab(2, UrlChrome, 0, 0))]

LiveTab(windowId, url, groupId) == [windowId |-> windowId, url |-> url, groupId |-> groupId]

NoWindows == [windows |-> <<>>, tabs |-> <<>>, tabGroups |-> <<>>, alarms |-> {}, nextId |-> 9]

\* no normal window: a popup only
LivePopup ==
    [NoWindows EXCEPT !.windows = (3 :> [type |-> "popup"]),
                      !.tabs = (4 :> LiveTab(3, UrlB, 0))]

\* the browser restored window "Work" under fresh ids
LiveSame ==
    [NoWindows EXCEPT !.windows = (3 :> [type |-> "normal"]),
                      !.tabs = (4 :> LiveTab(3, UrlA, 6)) @@ (5 :> LiveTab(3, UrlB, 0)),
                      !.tabGroups = (6 :> [windowId |-> 3, title |-> ""])]

LiveOther ==
    [NoWindows EXCEPT !.windows = (3 :> [type |-> "normal"]),
                      !.tabs = (4 :> LiveTab(3, UrlA2, 0))]

LiveStates == {LivePopup, LiveSame, LiveOther}

\* the browser kept running: the stored window "Work" is live under its ids
LiveSurvived ==
    [NoWindows EXCEPT !.windows = (1 :> [type |-> "normal"]),
                      !.tabs = (101 :> LiveTab(1, UrlA, 201)) @@ (102 :> LiveTab(1, UrlB, 0)),
                      !.tabGroups = (201 :> [windowId |-> 1, title |-> "G"])]

AnchorTimes == {0, 7}

\* the anchor config saved by the previous process
AnchorOf(t) ==
    <<[windowTitle |-> "Anchor", tabs |-> <<[url |-> UrlA, timeAccumulated |-> t]>>]>>

AnchorStates == {<<>>} \cup {AnchorOf(t) : t \in AnchorTimes}

\* first install, a worker woken without a normal window, a browser restart
\* and a worker restart in a running browser
Scenarios ==
    {[stored |-> EmptyDb, live |-> l, anchor |-> a] :
        l \in LiveStates, a \in AnchorStates}
    \cup {[stored |-> StoredWorkAndInternal, live |-> LivePopup, anchor |-> <<>>]}
    \cup {[stored |-> StoredWorkAndInternal, live |-> l, anchor |-> a] :
             l \in {LiveSame, LiveOther},
             a \in {<<>>, AnchorOf(CHOOSE t \in AnchorTimes : t > 0)}}
    \cup {[stored |-> [StoredWork EXCEPT !.activeAnchorWindowId =
                                            IF a = <<>> THEN 0 ELSE 1],
            live |-> LiveSurvived, anchor |-> a] : a \in AnchorStates}

\* the worker starts in one of the scenarios
InitFrom(scenarios) ==
    /\ \E s \in scenarios :
          /\ db = [s.stored EXCEPT !.anchorWindow = s.anchor]
          /\ chrome = s.live
    /\ sm = [currentSessionId |-> 0, isInitialized |-> FALSE, restoringTabIds |-> <<>>]
    /\ run = [r \in Runs |-> IF r = 1 THEN [IdleRun EXCEPT !.pc = "detect", !.isMain = TRUE]
                             ELSE IdleRun]
    /\ tick = [r \in Runs |-> 0]
    /\ listenersRegistered = FALSE
    /\ pendingCreated = {}
    /\ env = NoMoves
    /\ lastRestore = <<>>
    /\ mIn = <<>>
    /\ mOut = <<>>
    /\ now = StartTime
    /\ tt = NewTimeTracker
    /\ calls = {}
    /\ log = <<>>

Init == InitFrom(Scenarios)

RunStep(r) ==
    \/ Detect(r) \/ PollHit(r) \/ PollMiss(r) \/ PollGiveUp(r)
    \/ MarkTabs(r) \/ MarkWindows(r) \/ MarkTabGroups(r) \/ RecSession(r)
    \/ RecPollHit(r) \/ RecPollGiveUp(r) \/ RecInsert(r) \/ RecMatch(r)
    \/ RecTransfer(r) \/ RecReturn(r)
    \/ SyncState(r) \/ SyncBadge(r)
    \/ AnchorFind(r) \/ AnchorForce(r) \/ AnchorBanner(r) \/ Finish(r)

EnvStep(failing) ==
    \/ \E urls \in CreatedUrlLists : WindowCreated(urls)
    \/ \E e \in pendingCreated : HandleCreated(e)
    \/ \E w \in DOMAIN chrome.windows : WindowClosed(w)
    \/ \E a \in chrome.alarms : a[1] = "remove-window" /\ AlarmFires(a[2])
    \/ \E w \in PendingIds(db), createFails \in failing : RestoreUnmatchedWindow(w, createFails)

Next ==
    \/ \E r \in Runs : RunStep(r)
    \/ \E r \in Runs : RunFail(r)
    \/ EnvStep(BOOLEAN)

Spec == Init /\ [][Next]_vars

\* no call rejects
FairNext ==
    \/ \E r \in Runs : RunStep(r)
    \/ EnvStep({FALSE})

\* the worker starts with no normal window open
FairInit == Init /\ NormalWindowIds(chrome) = {}

\* the event loop resumes the run: its step counter advances
Resumed(r) ==
    /\ run[r].pc \notin {"idle", "done"}
    /\ tick' = [tick EXCEPT ![r] = 1 - @]

\* every run of initialize in progress eventually takes its next step
FairSpec == FairInit /\ [][FairNext]_vars /\ \A r \in Runs : WF_tick(Resumed(r))

(***************************************************************************)
(* tabs.js: the URL-change event of a tab                                  *)
(***************************************************************************)
\* the store, the browser and the manager after tabs.onUpdated with
\* changeInfo.url; restoring: what isTabRestoring answered
onTabUrlUpdated(d, c, s, tabId, url) ==
    LET restoring == isTabRestoring(s, tabId)
        updates == IF restoring THEN [url |-> url]
                   ELSE [url |-> url, timeAccumulated |-> 0]
        d1 == updateTab(d, tabId, updates)
        d2 == IF tabId \in DOMAIN c.tabs
              THEN syncAnchorWindowIfNeeded(d1, c, c.tabs[tabId].windowId) ELSE d1
    IN [db |-> d2,
        chrome |-> IF restoring THEN c
                   ELSE [c EXCEPT !.alarms = @ \cup {<<"stabilize-tab", tabId>>}],
        sm |-> dropExpired(s, tabId),
        restoring |-> restoring]

\* a tab commits the URL it was opened with
TabNavigated(t) ==
    /\ listenersRegistered
    /\ t \in DOMAIN chrome.tabs
    /\ env.navigated < MaxNavigated
    /\ MayMove
    /\ LET after == onTabUrlUpdated(db, chrome, sm, t, chrome.tabs[t].url)
       IN /\ db' = after.db
          /\ chrome' = after.chrome
          /\ sm' = after.sm
          /\ log' = <<[op |-> "tabs.onUpdated", id |-> t, restoring |-> after.restoring,
                        sinceMark |-> IF t \in DOMAIN sm.restoringTabIds
                                      THEN now - sm.restoringTabIds[t] ELSE -1,
                        timeBefore |-> IF t \in DOMAIN db.openTabs
                                       THEN db.openTabs[t].timeAccumulated ELSE -1]>>
    /\ env' = Moved([env EXCEPT !.navigated = @ + 1])
    /\ UNCHANGED <<run, tick, listenersRegistered, pendingCreated, lastRestore,
                   mIn, mOut, now, tt, calls>>

\* the alarm stabilize-tab-<t> fires; the smart organizer is not enabled
StabilizeAlarmFires(t) ==
    /\ <<"stabilize-tab", t>> \in chrome.alarms
    /\ chrome' = [chrome EXCEPT !.alarms = @ \ {<<"stabilize-tab", t>>}]
    /\ UNCHANGED <<db, sm, run, tick, listenersRegistered, pendingCreated, env,
                   lastRestore, auxVars>>

(***************************************************************************)
(* The lifecycle with navigation events, started behind a profile picker   *)
(* with an anchor window saved.                                            *)
(***************************************************************************)
NavScenarios ==
    {[stored |-> StoredWorkAndInternal, live |-> LivePopup, anchor |-> a] :
        a \in AnchorStates \ {<<>>}}

NavInit == InitFrom(NavScenarios)

NavNext ==
    \/ \E r \in Runs : RunStep(r)
    \/ EnvStep({FALSE})
    \/ \E t \in DOMAIN chrome.tabs : TabNavigated(t)
    \/ \E a \in chrome.alarms : a[1] = "stabilize-tab" /\ StabilizeAlarmFires(a[2])

SpecNav == NavInit /\ [][NavNext]_vars

(***************************************************************************)
(* TimeTracker                                                             *)
(***************************************************************************)
\* flushTime writes only an interval of at least one second
FlushThreshold == 1000

\* flushTime goes past its first return
flushDue(t) == t.activeTabId # 0 /\ t.lastActiveTime # 0 /\ t.isWindowFocused

\* the threshold test that lets every interval through
meaningfulAlways(elapsed) == TRUE

\* "Only update if meaningful time elapsed"
meaningful(elapsed) == elapsed >= FlushThreshold

\* flushTime up to its first await. done: it has returned (nothing to flush,
\* or less than the threshold); otherwise it waits for db.getTab with the
\* values it has computed: the tab it reads, 'now' and the elapsed time
flushBegin(t) ==
    IF ~flushDue(t) THEN [done |-> TRUE, tt |-> t]
    ELSE IF ~meaningful(now - t.lastActiveTime)
    THEN [done |-> TRUE, tt |-> [t EXCEPT !.lastActiveTime = now]]
    ELSE [done |-> FALSE, tt |-> t,
          tabId |-> t.activeTabId, from |-> t.lastActiveTime, stamp |-> now,
          elapsed |-> now - t.lastActiveTime]

\* the tab read by flushTime is stored and not an orphan
creditable(d, tabId) ==
    tabId \in DOMAIN d.openTabs /\ d.openTabs[tabId].isOrphan = 0

\* flushTime from the answer of db.getTab to its end: the update goes to the
\* tab that is active now, the callback syncs the anchor window, and
\* lastActiveTime becomes the 'now' computed before the await
flushEnd(d, c, t, f) ==
    LET credited == creditable(d, f.tabId)
    IN [db |-> IF credited
               THEN syncAnchorWindowIfNeeded(
                        updateTab(d, t.activeTabId,
                                  [timeAccumulated |-> d.openTabs[f.tabId].timeAccumulated
                                                       + f.elapsed]),
                        c, t.activeWindowId)
               ELSE d,
        tt |-> [t EXCEPT !.lastActiveTime = f.stamp],
        credited |-> credited /\ t.activeTabId \in DOMAIN d.openTabs]

(***************************************************************************)
(* Handlers of tab, window and tab-group events, one step per await        *)
(***************************************************************************)
MaxTabsCreated == 1     \* tabs the user opens
MaxTabsClosed == 1      \* tabs the user closes
MaxGroupsClosed == 1    \* tab groups the user removes
MaxNow == 12000         \* the clock stops here
Delays == {5000, 6000}  \* the steps of the clock

\* the removal alarm that the creation handler 'op' clears
RemovalAlarm(op, id) ==
    <<CASE op = "tabs.onCreated" -> "remove-tab"
        [] op = "windows.onCreated" -> "remove-window"
        [] op = "tabGroups.onCreated" -> "remove-group"
        [] OTHER -> "none", id>>

\* an invocation of a handler or method, suspended at 'pc'; pending: a
\* removal alarm for the id was pending when the event was raised
Call(op, pc, id, data) ==
    [op |-> op, pc |-> pc, id |-> id, data |-> data,
     pending |-> RemovalAlarm(op, id) \in chrome.alarms]

\* the creation handlers that have completed for an id whose removal was pending
Completed(call) ==
    IF call.pending THEN Append(log, [op |-> call.op, id |-> call.id]) ELSE log

NoData == [windowId |-> 0]

\* chrome.alarms.clear that clears nothing
clearAlarmKept(c, name) == c

\* chrome.alarms.clear
clearAlarm(c, name) == [c EXCEPT !.alarms = @ \ {name}]

\* chrome.alarms.create
createAlarm(c, name) == [c EXCEPT !.alarms = @ \cup {name}]

removeTab(d, tabId) == [d EXCEPT !.openTabs = Remove(@, {tabId})]

\* chrome.tabs.create: a tab with the given id in window w
OpenTab(c, tabId, w, url) ==
    [c EXCEPT !.tabs = Put(@, tabId, LiveTab(w, url, 0)),
              !.nextId = IF tabId >= @ THEN tabId + 1 ELSE @]

\* ids of closed tabs and groups whose removal alarm is pending
ReusableIds(c, kind) == {a[2] : a \in {b \in c.alarms : b[1] = kind}}

\* the first await of a creation handler, chrome.alarms.clear, completes
CreatedClear(call) ==
    /\ call \in calls
    /\ call.op \in {"tabs.onCreated", "windows.onCreated", "tabGroups.onCreated"}
    /\ call.pc = "clear"
    /\ chrome' = clearAlarm(chrome, RemovalAlarm(call.op, call.id))
    /\ calls' = (calls \ {call}) \cup {[call EXCEPT !.pc = "put"]}
    /\ UNCHANGED <<db, sm, run, tick, listenersRegistered, pendingCreated, env,
                   lastRestore, mIn, mOut, now, tt, log>>

\* the rest of tabs.onCreated: getSessionId, db.addTab, the anchor sync
TabCreatedPut(call) ==
    /\ call \in calls
    /\ call.op = "tabs.onCreated"
    /\ call.pc = "put"
    /\ LET got == getSessionId(db, sm)
           d1 == addTab(got.db, call.id, NewTabRecord(call.data, call.data.windowId, 0))
       IN /\ db' = syncAnchorWindowIfNeeded(d1, chrome, call.data.windowId)
          /\ sm' = got.sm
    /\ calls' = calls \ {call}
    /\ UNCHANGED <<chrome, run, tick, listenersRegistered, pendingCreated, env,
                   lastRestore, mIn, mOut, now, tt>>
    /\ log' = Completed(call)

\* the rest of windows.onCreated: getSessionId, db.addWindow
WindowCreatedPut(call) ==
    /\ call \in calls
    /\ call.op = "windows.onCreated"
    /\ call.pc = "put"
    /\ LET got == getSessionId(db, sm)
       IN /\ db' = addWindow(got.db, call.id, NewWindowRecord(""))
          /\ sm' = got.sm
    /\ calls' = calls \ {call}
    /\ UNCHANGED <<chrome, run, tick, listenersRegistered, pendingCreated, env,
                   lastRestore, mIn, mOut, now, tt>>
    /\ log' = Completed(call)

\* the rest of tabGroups.onCreated: getSessionId, db.addTabGroup
TabGroupCreatedPut(call) ==
    /\ call \in calls
    /\ call.op = "tabGroups.onCreated"
    /\ call.pc = "put"
    /\ LET got == getSessionId(db, sm)
       IN /\ db' = [got.db EXCEPT !.tabGroups =
                        Put(@, call.id, NewTabGroupRecord(
                                [windowId |-> call.data.windowId, title |-> ""]))]
          /\ sm' = got.sm
    /\ calls' = calls \ {call}
    /\ UNCHANGED <<chrome, run, tick, listenersRegistered, pendingCreated, env,
                   lastRestore, mIn, mOut, now, tt>>
    /\ log' = Completed(call)

\* tabGroups.onUpdated
TabGroupUpdated(call) ==
    /\ call \in calls
    /\ call.op = "tabGroups.onUpdated"
    /\ db' = updateTabGroupTitle(db, call.id, call.data.title)
    /\ calls' = calls \ {call}
    /\ UNCHANGED <<chrome, sm, run, tick, listenersRegistered, pendingCreated, env,
                   lastRestore, mIn, mOut, now, tt, log>>

\* the user opens a tab in a live window; the browser gives it a fresh id or
\* the id of a closed tab
UserOpensTab(w, tabId) ==
    /\ env.tabsCreated < MaxTabsCreated
    /\ w \in NormalWindowIds(chrome)
    /\ tabId \in {chrome.nextId} \cup ReusableIds(chrome, "remove-tab")
    /\ tabId \notin DOMAIN chrome.tabs
    /\ chrome' = OpenTab(chrome, tabId, w, UrlB)
    /\ calls' = calls \cup {Call("tabs.onCreated", "clear", tabId, LiveTab(w, UrlB, 0))}
    /\ env' = [env EXCEPT !.tabsCreated = @ + 1]
    /\ UNCHANGED <<db, sm, run, tick, listenersRegistered, pendingCreated,
                   lastRestore, mIn, mOut, now, tt, log>>

\* tabs.onActivated after timeTracker.flushTime: the tracker follows the tab,
\* and the tab's staleness is reset unless it is restoring
activatedRest(d, s, t, tabId, windowId) ==
    [db |-> IF isTabRestoring(s, tabId) THEN d
            ELSE updateTab(d, tabId, [lastAccessed |-> now, timeAccumulated |-> 0]),
     sm |-> dropExpired(s, tabId),
     tt |-> [t EXCEPT !.activeTabId = tabId, !.activeWindowId = windowId,
                      !.lastActiveTime = now],
     calls |-> {}]

\* tabs.onActivated up to its first await that waits: flushTime either
\* returns at once, and the handler runs to its end, or waits for db.getTab
onActivated(d, s, t, tabId, windowId) ==
    IF flushBegin(t).done
    THEN activatedRest(d, s, flushBegin(t).tt, tabId, windowId)
    ELSE [db |-> d, sm |-> s, tt |-> t,
          calls |-> {[op |-> "tabs.onActivated", pc |-> "flush", id |-> tabId,
                      data |-> [windowId |-> windowId, flush |-> flushBegin(t)],
                      pending |-> FALSE]}]

\* the browser tracks the active tab of each window
TracksActive(c) == "active" \in DOMAIN c

\* the tab the browser activates when tab t of window w is closed
NextActive(c, t) ==
    MinOf({x \in DOMAIN c.tabs : x # t /\ c.tabs[x].windowId = c.tabs[t].windowId})

\* the user closes a tab of a window that stays open; when it was the active
\* tab the browser activates another one (tabs.onActivated)
UserClosesTab(t) ==
    /\ env.tabsClosed < MaxTabsClosed
    /\ t \in DOMAIN chrome.tabs
    /\ \E x \in DOMAIN chrome.tabs : x # t /\ chrome.tabs[x].windowId = chrome.tabs[t].windowId
    /\ LET w == chrome.tabs[t].windowId
           removed == Call("tabs.onRemoved", "clear", t, [windowId |-> w])
       IN IF TracksActive(chrome) /\ chrome.active[w] = t
          THEN LET after == onActivated(db, sm, tt, NextActive(chrome, t), w)
               IN /\ chrome' = [chrome EXCEPT !.tabs = Remove(@, {t}),
                                              !.active[w] = NextActive(chrome, t)]
                  /\ db' = after.db
                  /\ sm' = after.sm
                  /\ tt' = after.tt
                  /\ calls' = calls \cup {removed} \cup after.calls
          ELSE /\ chrome' = [chrome EXCEPT !.tabs = Remove(@, {t})]
               /\ calls' = calls \cup {removed}
               /\ UNCHANGED <<db, sm, tt>>
    /\ env' = [env EXCEPT !.tabsClosed = @ + 1]
    /\ UNCHANGED <<run, tick, listenersRegistered, pendingCreated,
                   lastRestore, mIn, mOut, now, log>>

\* tabs.onRemoved deleting the record at once
tabRemovedAtOnce(d, c, tabId) == [db |-> removeTab(d, tabId), chrome |-> c]

\* tabs.onRemoved, not isWindowClosing: the removal is scheduled
tabRemovalScheduled(d, c, tabId) ==
    [db |-> d, chrome |-> createAlarm(c, <<"remove-tab", tabId>>)]

\* the first await of tabs.onRemoved, clearing the stabilize alarm, completes
TabRemovedClear(call) ==
    /\ call \in calls
    /\ call.op = "tabs.onRemoved"
    /\ call.pc = "clear"
    /\ chrome' = clearAlarm(chrome, <<"stabilize-tab", call.id>>)
    /\ calls' = (calls \ {call}) \cup {[call EXCEPT !.pc = "schedule"]}
    /\ UNCHANGED <<db, sm, run, tick, listenersRegistered, pendingCreated, env,
                   lastRestore, mIn, mOut, now, tt, log>>

\* tabs.onRemoved after flushTime: activeTabId and lastActiveTime are cleared
\* when the tab was the active one, then the alarm and the anchor sync
tabRemovedRest(d, c, t, call, wasActive) ==
    LET after == tabRemovalScheduled(d, c, call.id)
    IN [db |-> syncAnchorWindowIfNeeded(after.db, after.chrome, call.data.windowId),
        chrome |-> after.chrome,
        tt |-> IF wasActive
               THEN [t EXCEPT !.activeTabId = 0, !.lastActiveTime = 0] ELSE t]

\* tabs.onRemoved after its first await: timeTracker.onTabRemoved, which
\* either returns at once or waits in flushTime, then the rest
TabRemovedSchedule(call) ==
    /\ call \in calls
    /\ call.op = "tabs.onRemoved"
    /\ call.pc = "schedule"
    /\ IF call.id = tt.activeTabId /\ ~flushBegin(tt).done
       THEN /\ calls' = (calls \ {call}) \cup
                  {[call EXCEPT !.pc = "flush",
                                !.data = [windowId |-> call.data.windowId,
                                          flush |-> flushBegin(tt)]]}
            /\ UNCHANGED <<db, chrome, tt>>
       ELSE /\ LET t1 == IF call.id = tt.activeTabId THEN flushBegin(tt).tt ELSE tt
                   rest == tabRemovedRest(db, chrome, t1, call, call.id = tt.activeTabId)
               IN /\ db' = rest.db
                  /\ chrome' = rest.chrome
                  /\ tt' = rest.tt
            /\ calls' = calls \ {call}
    /\ UNCHANGED <<sm, run, tick, listenersRegistered, pendingCreated, env,
                   lastRestore, mIn, mOut, now, log>>

\* the alarm remove-tab-<t> fires
TabAlarmFires(t) ==
    /\ <<"remove-tab", t>> \in chrome.alarms
    /\ db' = removeTab(db, t)
    /\ chrome' = [chrome EXCEPT !.alarms = @ \ {<<"remove-tab", t>>}]
    /\ UNCHANGED <<sm, run, tick, listenersRegistered, pendingCreated, env,
                   lastRestore, auxVars>>

\* the user removes a tab group (its tabs are ungrouped): tabGroups.onRemoved
UserRemovesGroup(g) ==
    /\ env.groupsClosed < MaxGroupsClosed
    /\ g \in DOMAIN chrome.tabGroups
    /\ chrome' = createAlarm(
                    [chrome EXCEPT
                        !.tabGroups = Remove(@, {g}),
                        !.tabs = [x \in DOMAIN @ |->
                                     IF @[x].groupId = g THEN [@[x] EXCEPT !.groupId = 0]
                                     ELSE @[x]]],
                    <<"remove-group", g>>)
    /\ env' = [env EXCEPT !.groupsClosed = @ + 1]
    /\ UNCHANGED <<db, sm, run, tick, listenersRegistered, pendingCreated,
                   lastRestore, auxVars>>

\* the alarm remove-group-<g> fires
GroupAlarmFires(g) ==
    /\ <<"remove-group", g>> \in chrome.alarms
    /\ db' = removeTabGroups(db, {g})
    /\ chrome' = [chrome EXCEPT !.alarms = @ \ {<<"remove-group", g>>}]
    /\ UNCHANGED <<sm, run, tick, listenersRegistered, pendingCreated, env,
                   lastRestore, auxVars>>

\* time passes
Tick(d) ==
    /\ now + d <= MaxNow
    /\ now' = now + d
    /\ UNCHANGED <<db, chrome, sm, run, tick, listenersRegistered, pendingCreated, env,
                   lastRestore, mIn, mOut, tt, calls, log>>

(***************************************************************************)
(* restoreUnmatchedWindow, one step per await, with the creation events    *)
(* its browser calls raise                                                 *)
(***************************************************************************)
RestoreCalls == {call \in calls : call.op = "restoreUnmatchedWindow"}

\* the RESTORE_UNMATCHED_WINDOW message arrives; the three reads
RestoreStart(w) ==
    /\ w \in PendingIds(db)
    /\ RestoreCalls = {}
    /\ env.restoreCalls < MaxRestoreCalls
    /\ LET orphanTabs == getOrphanTabsByWindowId(db, w)
           orphanGroups == getOrphanTabGroupsByWindowId(db, w)
           validTabs == SelectSeq(orphanTabs, LAMBDA t : Creatable(t.url))
       IN calls' = calls \cup
              {Call("restoreUnmatchedWindow",
                    IF Len(orphanTabs) = 0 \/ Len(validTabs) = 0 THEN "drop" ELSE "window",
                    w,
                    [windowId |-> 0,
                     validTabs |-> validTabs,
                     orphanGroups |-> orphanGroups,
                     title |-> IF w \in DOMAIN db.openWindows
                               THEN db.openWindows[w].title ELSE "",
                     createdTabs |-> <<>>,
                     k |-> 1])}
    /\ env' = [env EXCEPT !.restoreCalls = @ + 1]
    /\ UNCHANGED <<db, chrome, sm, run, tick, listenersRegistered, pendingCreated,
                   lastRestore, mIn, mOut, now, tt, log>>

\* what restoreUnmatchedWindow returns
RestoreResult(call, success) ==
    <<[windowId |-> call.id, success |-> success, call |-> env.restoreCalls,
       createdTabs |-> call.data.createdTabs]>>

\* no tab to recreate: the orphan is deleted and the call fails
RestoreDrop(call) ==
    /\ call \in RestoreCalls
    /\ call.pc = "drop"
    /\ db' = removeUnmatchedFromRecovery(deleteOrphanWindow(db, call.id), call.id)
    /\ lastRestore' = RestoreResult(call, FALSE)
    /\ calls' = calls \ {call}
    /\ UNCHANGED <<chrome, sm, run, tick, listenersRegistered, pendingCreated, env,
                   mIn, mOut, now, tt, log>>

\* chrome.windows.create with the first valid tab
RestoreCreateWindow(call) ==
    /\ call \in RestoreCalls
    /\ call.pc = "window"
    /\ LET w == chrome.nextId
           first == call.data.validTabs[1]
       IN /\ chrome' = OpenWindow(chrome, <<first.url>>)
          /\ calls' = (calls \ {call}) \cup
                {[call EXCEPT !.pc = IF Len(call.data.validTabs) > 1 THEN "tab" ELSE "transfer",
                              !.data.windowId = w,
                              !.data.createdTabs = <<[orphanTab |-> first, newTabId |-> w + 1]>>,
                              !.data.k = IF Len(call.data.validTabs) > 1 THEN 2 ELSE 1],
                 Call("windows.onCreated", "clear", w, NoData),
                 Call("tabs.onCreated", "clear", w + 1, LiveTab(w, first.url, 0))}
    /\ UNCHANGED <<db, sm, run, tick, listenersRegistered, pendingCreated, env,
                   lastRestore, mIn, mOut, now, tt, log>>

\* chrome.tabs.create for the k-th valid tab; it rejects when the window is gone
RestoreCreateTab(call) ==
    /\ call \in RestoreCalls
    /\ call.pc = "tab"
    /\ LET k == call.data.k
           orphanTab == call.data.validTabs[k]
           tabId == chrome.nextId
           last == k = Len(call.data.validTabs)
       IN IF call.data.windowId \in DOMAIN chrome.windows
          THEN /\ chrome' = OpenTab(chrome, tabId, call.data.windowId, orphanTab.url)
               /\ calls' = (calls \ {call}) \cup
                     {[call EXCEPT !.pc = IF last THEN "transfer" ELSE "tab",
                                   !.data.createdTabs =
                                       Append(@, [orphanTab |-> orphanTab, newTabId |-> tabId]),
                                   !.data.k = IF last THEN 1 ELSE k + 1],
                      Call("tabs.onCreated", "clear", tabId,
                           LiveTab(call.data.windowId, orphanTab.url, 0))}
               /\ UNCHANGED lastRestore
          ELSE /\ lastRestore' = RestoreResult(call, FALSE)
               /\ calls' = calls \ {call}
               /\ UNCHANGED chrome
    /\ UNCHANGED <<db, sm, run, tick, listenersRegistered, pendingCreated, env,
                   mIn, mOut, now, tt, log>>

\* the updates object built from an orphan tab
restoredUpdates(orphanTab) ==
    LET time == IF orphanTab.timeAccumulated > 0
                THEN [timeAccumulated |-> orphanTab.timeAccumulated] ELSE <<>>
        access == IF orphanTab.lastAccessed # 0
                  THEN [lastAccessed |-> orphanTab.lastAccessed] ELSE <<>>
    IN time @@ access

\* markTabAsRestoring and db.updateTab for the k-th recreated tab
RestoreTransfer(call) ==
    /\ call \in RestoreCalls
    /\ call.pc = "transfer"
    /\ LET k == call.data.k
           created == call.data.createdTabs[k]
           last == k = Len(call.data.createdTabs)
       IN /\ sm' = markTabsAsRestoring(sm, {created.newTabId})
          /\ db' = updateTab(db, created.newTabId, restoredUpdates(created.orphanTab))
          /\ calls' = (calls \ {call}) \cup
                {[call EXCEPT !.pc = IF last THEN "groups" ELSE "transfer",
                              !.data.k = IF last THEN 1 ELSE k + 1]}
    /\ UNCHANGED <<chrome, run, tick, listenersRegistered, pendingCreated, env,
                   lastRestore, mIn, mOut, now, tt, log>>

\* chrome.tabs.group and chrome.tabGroups.update for each orphan group with
\* recreated tabs; a group whose tabs are gone is skipped
RestoreGroups(call) ==
    /\ call \in RestoreCalls
    /\ call.pc = "groups"
    /\ LET created == call.data.createdTabs
           groups == call.data.orphanGroups
           groupIds == {groups[i].id : i \in DOMAIN groups}
           toGroup == GroupIdsOf(call.data.validTabs, groupIds)
           tabsOf(j) == {created[i].newTabId : i \in
                            {x \in DOMAIN created : created[x].orphanTab.groupId = toGroup[j]}}
           made == {j \in DOMAIN toGroup : tabsOf(j) # {} /\ tabsOf(j) \subseteq DOMAIN chrome.tabs}
           newGroupId(j) == chrome.nextId - 1 + j
           titleOf(j) == (CHOOSE g \in SeqToSet(groups) : g.id = toGroup[j]).title
       IN /\ chrome' = [chrome EXCEPT
                 !.tabs = [x \in DOMAIN @ |->
                              IF \E j \in made : x \in tabsOf(j)
                              THEN [@[x] EXCEPT !.groupId =
                                       newGroupId(CHOOSE j \in made : x \in tabsOf(j))]
                              ELSE @[x]],
                 !.tabGroups = PutAll(@, {newGroupId(j) : j \in made},
                                 LAMBDA n : [windowId |-> call.data.windowId,
                                             title |-> titleOf(n - chrome.nextId + 1)]),
                 !.nextId = @ + Len(toGroup)]
          /\ calls' = (calls \ {call})
                \cup {[call EXCEPT !.pc = "finish"]}
                \cup {Call("tabGroups.onCreated", "clear", newGroupId(j),
                           [windowId |-> call.data.windowId]) : j \in made}
                \cup {Call("tabGroups.onUpdated", "update", newGroupId(j),
                           [windowId |-> call.data.windowId, title |-> titleOf(j)]) : j \in made}
    /\ UNCHANGED <<db, sm, run, tick, listenersRegistered, pendingCreated, env,
                   lastRestore, mIn, mOut, now, tt, log>>

\* the window title, the deletion of the orphan records, the banner, the return
RestoreFinish(call) ==
    /\ call \in RestoreCalls
    /\ call.pc = "finish"
    /\ LET groups == call.data.orphanGroups
           d1 == IF Truthy(call.data.title)
                 THEN updateWindowTitle(db, call.data.windowId, call.data.title) ELSE db
           d2 == removeTabGroups(deleteOrphanWindow(d1, call.id),
                                 {groups[i].id : i \in DOMAIN groups})
       IN db' = removeUnmatchedFromRecovery(d2, call.id)
    /\ lastRestore' = RestoreResult(call, TRUE)
    /\ calls' = calls \ {call}
    /\ UNCHANGED <<chrome, sm, run, tick, listenersRegistered, pendingCreated, env,
                   mIn, mOut, now, tt, log>>

(***************************************************************************)
(* The running extension: recovery has finished with nothing matched       *)
(***************************************************************************)
\* the browser after the restart: one window, one grouped tab
LiveGrouped ==
    [LiveOther EXCEPT !.tabs = (4 :> LiveTab(3, UrlA2, 6)) @@ (5 :> LiveTab(3, UrlB, 0)),
                      !.tabGroups = (6 :> [windowId |-> 3, title |-> ""])]

\* the store after performRecovery of StoredWorkAndInternal against LiveGrouped
RecoveredDb ==
    LET marked == markTabGroupsAsOrphans(markWindowsAsOrphans(markTabsAsOrphans(StoredWorkAndInternal)))
        inserted == insertBrowserState(createSession(marked), LiveGrouped,
                                       NormalWindowIds(LiveGrouped))
    IN updateRecoveryResult(inserted,
          recoveryResultOf([matched |-> <<>>, unmatchedOrphans |-> getOrphanWindows(marked)],
                           getOrphanTabs(marked)))

EventsInit ==
    /\ now = StartTime
    /\ db = RecoveredDb
    /\ chrome = LiveGrouped
    /\ sm = [currentSessionId |-> Len(RecoveredDb.sessions), isInitialized |-> TRUE,
             restoringTabIds |-> <<>>]
    /\ run = [r \in Runs |-> IF r = 1 THEN [Finished(IdleRun, "recovered") EXCEPT !.isMain = TRUE]
                             ELSE IdleRun]
    /\ tick = 0
    /\ listenersRegistered = TRUE
    /\ pendingCreated = {}
    /\ env = NoMoves
    /\ lastRestore = <<>>
    /\ mIn = <<>>
    /\ mOut = <<>>
    /\ tt = NewTimeTracker
    /\ calls = {}
    /\ log = <<>>

EventsNext ==
    \/ \E w \in PendingIds(db) : RestoreStart(w)
    \/ \E call \in calls : RestoreDrop(call)
    \/ \E call \in calls : RestoreCreateWindow(call)
    \/ \E call \in calls : RestoreCreateTab(call)
    \/ \E call \in calls : RestoreTransfer(call)
    \/ \E call \in calls : RestoreGroups(call)
    \/ \E call \in calls : RestoreFinish(call)
    \/ \E call \in calls : CreatedClear(call)
    \/ \E call \in calls : TabCreatedPut(call)
    \/ \E call \in calls : WindowCreatedPut(call)
    \/ \E call \in calls : TabGroupCreatedPut(call)
    \/ \E call \in calls : TabGroupUpdated(call)
    \/ \E t \in DOMAIN chrome.tabs : TabNavigated(t)
    \/ \E a \in chrome.alarms : a[1] = "stabilize-tab" /\ StabilizeAlarmFires(a[2])
    \/ \E d \in Delays : Tick(d)

SpecEvents == EventsInit /\ [][EventsNext]_vars

(***************************************************************************)
(* Closed tabs, windows and groups whose ids the browser gives out again   *)
(***************************************************************************)
MaxGroupsCreated == 1   \* tab groups the user creates

\* chrome.windows.create by the user: window w with one tab
OpenWindowAs(c, w, tabId) ==
    [c EXCEPT !.windows = Put(@, w, [type |-> "normal"]),
              !.tabs = Put(@, tabId, LiveTab(w, UrlB, 0)),
              !.nextId = Max(@, Max(w, tabId) + 1)]

\* the user opens a window; the browser gives it a fresh id or the id of a
\* closed window
UserOpensWindow(w) ==
    /\ env.created < MaxCreated
    /\ w \in {chrome.nextId} \cup ReusableIds(chrome, "remove-window")
    /\ w \notin DOMAIN chrome.windows
    /\ LET tabId == IF w = chrome.nextId THEN w + 1 ELSE chrome.nextId
       IN /\ chrome' = OpenWindowAs(chrome, w, tabId)
          /\ calls' = calls \cup {Call("windows.onCreated", "clear", w, NoData),
                                  Call("tabs.onCreated", "clear", tabId, LiveTab(w, UrlB, 0))}
    /\ env' = [env EXCEPT !.created = @ + 1]
    /\ UNCHANGED <<db, sm, run, tick, listenersRegistered, pendingCreated,
                   lastRestore, mIn, mOut, now, tt, log>>

\* the user puts an ungrouped tab into a new group; the browser gives the
\* group a fresh id or the id of a removed group
UserGroupsTab(t, g) ==
    /\ env.groupsCreated < MaxGroupsCreated
    /\ t \in DOMAIN chrome.tabs
    /\ chrome.tabs[t].groupId = 0
    /\ g \in {chrome.nextId} \cup ReusableIds(chrome, "remove-group")
    /\ g \notin DOMAIN chrome.tabGroups
    /\ chrome' = [chrome EXCEPT
                     !.tabs[t].groupId = g,
                     !.tabGroups = Put(@, g, [windowId |-> chrome.tabs[t].windowId,
                                              title |-> ""]),
                     !.nextId = Max(@, g + 1)]
    /\ calls' = calls \cup {Call("tabGroups.onCreated", "clear", g,
                                 [windowId |-> chrome.tabs[t].windowId])}
    /\ env' = [env EXCEPT !.groupsCreated = @ + 1]
    /\ UNCHANGED <<db, sm, run, tick, listenersRegistered, pendingCreated,
                   lastRestore, mIn, mOut, now, tt, log>>

\* the alarm remove-window-<w> fires: db.removeWindow
WindowAlarmFires(w) ==
    /\ <<"remove-window", w>> \in chrome.alarms
    /\ db' = [db EXCEPT !.openWindows = Remove(@, {w})]
    /\ chrome' = [chrome EXCEPT !.alarms = @ \ {<<"remove-window", w>>}]
    /\ calls' = calls \cup {[op |-> "alarms.onAlarm", pc |-> "tabs", id |-> w,
                             data |-> NoData, pending |-> FALSE]}
    /\ UNCHANGED <<sm, run, tick, listenersRegistered, pendingCreated, env,
                   lastRestore, mIn, mOut, now, tt, log>>

\* the rest of the window alarm handler: db.getTabsByWindowId and
\* db.removeTab for each
WindowAlarmTabs(call) ==
    /\ call \in calls
    /\ call.op = "alarms.onAlarm"
    /\ db' = [db EXCEPT !.openTabs = Remove(@, {x \in DOMAIN @ : @[x].windowId = call.id})]
    /\ calls' = calls \ {call}
    /\ UNCHANGED <<chrome, sm, run, tick, listenersRegistered, pendingCreated, env,
                   lastRestore, mIn, mOut, now, tt, log>>

ReuseNext ==
    \/ \E w \in DOMAIN chrome.windows, t \in 1..chrome.nextId : UserOpensTab(w, t)
    \/ \E t \in DOMAIN chrome.tabs : UserClosesTab(t)
    \/ \E w \in 1..chrome.nextId : UserOpensWindow(w)
    \/ \E w \in DOMAIN chrome.windows : WindowClosed(w)
    \/ \E t \in DOMAIN chrome.tabs, g \in 1..chrome.nextId : UserGroupsTab(t, g)
    \/ \E g \in DOMAIN chrome.tabGroups : UserRemovesGroup(g)
    \/ \E call \in calls : CreatedClear(call)
    \/ \E call \in calls : TabCreatedPut(call)
    \/ \E call \in calls : WindowCreatedPut(call)
    \/ \E call \in calls : TabGroupCreatedPut(call)
    \/ \E call \in calls : TabRemovedClear(call)
    \/ \E call \in calls : TabRemovedSchedule(call)
    \/ \E call \in calls : WindowAlarmTabs(call)
    \/ \E a \in chrome.alarms : a[1] = "remove-tab" /\ TabAlarmFires(a[2])
    \/ \E a \in chrome.alarms : a[1] = "remove-window" /\ WindowAlarmFires(a[2])
    \/ \E a \in chrome.alarms : a[1] = "remove-group" /\ GroupAlarmFires(a[2])

SpecReuse == EventsInit /\ [][ReuseNext]_vars

(***************************************************************************)
(* The time tracker under tab-activation, focus-change and tab-removal     *)
(* events, one step per await that waits                                   *)
(***************************************************************************)
MaxFocusChanges == 2    \* focus changes of the browser
MaxActivations == 2     \* tabs the user activates
MaxTime == 4000         \* the clock of the tracker harness stops here
TimeDelays == {900, 1500}

\* the browser has lost focus and not regained it
Unfocused == \E i \in DOMAIN log : log[i].op = "unfocused" /\ log[i].to = 0

\* the user activates another tab of a window: tabs.onActivated
TabActivated(t) ==
    /\ env.activations < MaxActivations
    /\ t \in DOMAIN chrome.tabs
    /\ chrome.active[chrome.tabs[t].windowId] # t
    /\ LET after == onActivated(db, sm, tt, t, chrome.tabs[t].windowId)
       IN /\ db' = after.db
          /\ sm' = after.sm
          /\ tt' = after.tt
          /\ calls' = calls \cup after.calls
    /\ chrome' = [chrome EXCEPT !.active[chrome.tabs[t].windowId] = t]
    /\ env' = [env EXCEPT !.activations = @ + 1]
    /\ UNCHANGED <<run, tick, listenersRegistered, pendingCreated,
                   lastRestore, mIn, mOut, now, log>>

\* the browser loses focus: windows.onFocusChanged(WINDOW_ID_NONE), up to the
\* first await that waits
FocusLost ==
    /\ env.focusChanges < MaxFocusChanges
    /\ ~Unfocused
    /\ IF flushBegin(tt).done
       THEN /\ tt' = [flushBegin(tt).tt EXCEPT !.isWindowFocused = FALSE]
            /\ UNCHANGED calls
       ELSE /\ calls' = calls \cup
                  {[op |-> "windows.onFocusChanged", pc |-> "flush", id |-> 0,
                    data |-> [windowId |-> 0, flush |-> flushBegin(tt)],
                    pending |-> FALSE]}
            /\ UNCHANGED tt
    /\ log' = Append(log, [op |-> "unfocused", id |-> 0, from |-> now, to |-> 0])
    /\ env' = [env EXCEPT !.focusChanges = @ + 1]
    /\ UNCHANGED <<db, chrome, sm, run, tick, listenersRegistered, pendingCreated,
                   lastRestore, mIn, mOut, now>>

\* window w gains focus: windows.onFocusChanged(w), up to chrome.tabs.query
FocusGained(w) ==
    /\ env.focusChanges < MaxFocusChanges
    /\ Unfocused
    /\ w \in NormalWindowIds(chrome)
    /\ tt' = [tt EXCEPT !.isWindowFocused = TRUE, !.activeWindowId = w]
    /\ calls' = calls \cup {[op |-> "windows.onFocusChanged", pc |-> "query", id |-> w,
                             data |-> NoData, pending |-> FALSE]}
    /\ log' = [i \in DOMAIN log |->
                  IF log[i].op = "unfocused" /\ log[i].to = 0
                  THEN [log[i] EXCEPT !.to = now] ELSE log[i]]
    /\ env' = [env EXCEPT !.focusChanges = @ + 1]
    /\ UNCHANGED <<db, chrome, sm, run, tick, listenersRegistered, pendingCreated,
                   lastRestore, mIn, mOut, now>>

\* chrome.tabs.query answers: the tracker follows the active tab of the window
FocusQueryAnswered(call) ==
    /\ call \in calls
    /\ call.op = "windows.onFocusChanged"
    /\ call.pc = "query"
    /\ tt' = IF call.id \in DOMAIN chrome.windows
             THEN [tt EXCEPT !.activeTabId = chrome.active[call.id], !.lastActiveTime = now]
             ELSE tt
    /\ calls' = calls \ {call}
    /\ UNCHANGED <<db, chrome, sm, run, tick, listenersRegistered, pendingCreated, env,
                   lastRestore, mIn, mOut, now, log>>

\* db.getTab answers a waiting flushTime: the write, the callback, the
\* assignment of lastActiveTime, then the rest of the calling handler
FlushAnswered(call) ==
    /\ call \in calls
    /\ call.pc = "flush"
    /\ LET flushed == flushEnd(db, chrome, tt, call.data.flush)
           activated == activatedRest(flushed.db, sm, flushed.tt, call.id,
                                      call.data.windowId)
           removed == tabRemovedRest(flushed.db, chrome, flushed.tt, call, TRUE)
       IN /\ db' = CASE call.op = "tabs.onActivated" -> activated.db
                      [] call.op = "tabs.onRemoved" -> removed.db
                      [] OTHER -> flushed.db
          /\ sm' = IF call.op = "tabs.onActivated" THEN activated.sm ELSE sm
          /\ tt' = CASE call.op = "tabs.onActivated" -> activated.tt
                      [] call.op = "tabs.onRemoved" -> removed.tt
                      [] OTHER -> [flushed.tt EXCEPT !.isWindowFocused = FALSE]
          /\ chrome' = IF call.op = "tabs.onRemoved" THEN removed.chrome ELSE chrome
          /\ log' = IF flushed.credited
                    THEN Append(log, [op |-> "credit", id |-> tt.activeTabId,
                                      from |-> call.data.flush.from,
                                      to |-> call.data.flush.stamp])
                    ELSE log
    /\ calls' = calls \ {call}
    /\ UNCHANGED <<run, tick, listenersRegistered, pendingCreated, env,
                   lastRestore, mIn, mOut, now>>

\* time passes in the tracker harness
TimeTick(d) ==
    /\ now + d <= MaxTime
    /\ Tick(d)

\* the browser of the tracker harness: tab 4 is the active tab of window 3
LiveTracked == LiveGrouped @@ [active |-> (3 :> 4)]

\* timeTracker.initialize has run with the browser focused
TimeInit ==
    /\ now = StartTime
    /\ db = RecoveredDb
    /\ chrome = LiveTracked
    /\ sm = [currentSessionId |-> Len(RecoveredDb.sessions), isInitialized |-> TRUE,
             restoringTabIds |-> <<>>]
    /\ run = [r \in Runs |-> IF r = 1 THEN [Finished(IdleRun, "recovered") EXCEPT !.isMain = TRUE]
                             ELSE IdleRun]
    /\ tick = 0
    /\ listenersRegistered = TRUE
    /\ pendingCreated = {}
    /\ env = NoMoves
    /\ lastRestore = <<>>
    /\ mIn = <<>>
    /\ mOut = <<>>
    /\ tt = [activeTabId |-> 4, activeWindowId |-> 3, lastActiveTime |-> StartTime,
             isWindowFocused |-> TRUE]
    /\ calls = {}
    /\ log = <<>>

TimeNext ==
    \/ \E t \in DOMAIN chrome.tabs : TabActivated(t)
    \/ FocusLost
    \/ \E w \in DOMAIN chrome.windows : FocusGained(w)
    \/ \E call \in calls : FocusQueryAnswered(call)
    \/ \E call \in calls : FlushAnswered(call)
    \/ \E t \in DOMAIN chrome.tabs : UserClosesTab(t)
    \/ \E call \in calls : TabRemovedClear(call)
    \/ \E call \in calls : TabRemovedSchedule(call)
    \/ \E a \in chrome.alarms : a[1] = "remove-tab" /\ TabAlarmFires(a[2])
    \/ \E d \in TimeDelays : TimeTick(d)

SpecTime == TimeInit /\ [][TimeNext]_vars

(***************************************************************************)
(* Sessions: getSessionId and createSession, one step per await            *)
(***************************************************************************)
MaxSessionCallers == 2  \* event handlers that ask for the session id

\* db.sessions.update(id, {active: 0})
deactivateSession(d, id) == [d EXCEPT !.sessions[id] = 0]

\* db.sessions.add({active: 1})
addSession(d) == [d EXCEPT !.sessions = Append(@, 1)]

ActiveSessions(d) == {i \in DOMAIN d.sessions : d.sessions[i] = 1}

SessionOps == {"getSessionId", "initialize", "performRecovery"}

\* an event handler calls getSessionId: the id is returned when it is set,
\* otherwise the call waits for db.getActiveSession
HandlerAsksSession ==
    /\ env.created < MaxSessionCallers
    /\ calls' = IF sm.currentSessionId # 0 THEN calls
                ELSE calls \cup {[op |-> "getSessionId", pc |-> "getActive",
                                  id |-> env.created + 1, data |-> NoData, pending |-> FALSE]}
    /\ env' = [env EXCEPT !.created = @ + 1]
    /\ UNCHANGED <<db, chrome, sm, run, tick, listenersRegistered, pendingCreated,
                   lastRestore, mIn, mOut, now, tt, log>>

\* the deferred initialize reaches its session step: performRecovery on a
\* detected restart calls createSession, the other path asks for the active
\* session first; a restart is detected only over records that an earlier
\* session has stored
InitializeAsksSession(restart) ==
    /\ ~sm.isInitialized
    /\ restart => db.sessions # <<>>
    /\ \A call \in calls : call.op \notin {"initialize", "performRecovery"}
    /\ calls' = calls \cup
          {[op |-> IF restart THEN "performRecovery" ELSE "initialize",
            pc |-> IF restart THEN "read" ELSE "getActive",
            id |-> 0, data |-> NoData, pending |-> FALSE]}
    /\ UNCHANGED <<db, chrome, sm, run, tick, listenersRegistered, pendingCreated, env,
                   lastRestore, mIn, mOut, now, tt, log>>

\* the manager after a caller has got its session id
SessionKnown(s, call, id) ==
    [s EXCEPT !.currentSessionId = id,
              !.isInitialized = @ \/ call.op \in {"initialize", "performRecovery"}]

\* db.getActiveSession answers: the id is kept, or createSession is called
ActiveSessionAnswered(call) ==
    /\ call \in calls
    /\ call.op \in SessionOps
    /\ call.pc = "getActive"
    /\ IF getActiveSession(db) # 0
       THEN /\ sm' = SessionKnown(sm, call, getActiveSession(db))
            /\ calls' = calls \ {call}
       ELSE /\ calls' = (calls \ {call}) \cup {[call EXCEPT !.pc = "read"]}
            /\ UNCHANGED sm
    /\ UNCHANGED <<db, chrome, run, tick, listenersRegistered, pendingCreated, env,
                   lastRestore, mIn, mOut, now, tt, log>>

\* createSession: the query for the active session answers
CreateSessionRead(call) ==
    /\ call \in calls
    /\ call.op \in SessionOps
    /\ call.pc = "read"
    /\ calls' = (calls \ {call}) \cup
          {IF getActiveSession(db) # 0
           THEN [call EXCEPT !.pc = "update",
                             !.data = [activeSession |-> getActiveSession(db)]]
           ELSE [call EXCEPT !.pc = "add"]}
    /\ UNCHANGED <<db, chrome, sm, run, tick, listenersRegistered, pendingCreated, env,
                   lastRestore, mIn, mOut, now, tt, log>>

\* createSession: the session that was read is deactivated
CreateSessionUpdate(call) ==
    /\ call \in calls
    /\ call.op \in SessionOps
    /\ call.pc = "update"
    /\ db' = deactivateSession(db, call.data.activeSession)
    /\ calls' = (calls \ {call}) \cup {[call EXCEPT !.pc = "add", !.data = NoData]}
    /\ UNCHANGED <<chrome, sm, run, tick, listenersRegistered, pendingCreated, env,
                   lastRestore, mIn, mOut, now, tt, log>>

\* createSession: the new session is added and its id becomes currentSessionId
CreateSessionAdd(call) ==
    /\ call \in calls
    /\ call.op \in SessionOps
    /\ call.pc = "add"
    /\ db' = addSession(db)
    /\ sm' = SessionKnown(sm, call, Len(db.sessions) + 1)
    /\ calls' = calls \ {call}
    /\ UNCHANGED <<chrome, run, tick, listenersRegistered, pendingCreated, env,
                   lastRestore, mIn, mOut, now, tt, log>>

\* the worker starts behind a profile picker on a fresh install or after a
\* session that was left active; initialize is deferred, the listeners are on
SessionInit ==
    /\ now = StartTime
    /\ \E stored \in {<<>>, <<1>>, <<0, 1>>} : db = [EmptyDb EXCEPT !.sessions = stored]
    /\ chrome = LivePopup
    /\ sm = [currentSessionId |-> 0, isInitialized |-> FALSE, restoringTabIds |-> <<>>]
    /\ run = [r \in Runs |-> IdleRun]
    /\ tick = 0
    /\ listenersRegistered = TRUE
    /\ pendingCreated = {}
    /\ env = NoMoves
    /\ lastRestore = <<>>
    /\ mIn = <<>>
    /\ mOut = <<>>
    /\ tt = NewTimeTracker
    /\ calls = {}
    /\ log = <<>>

SessionNext ==
    \/ HandlerAsksSession
    \/ \E restart \in BOOLEAN : InitializeAsksSession(restart)
    \/ \E call \in calls : ActiveSessionAnswered(call)
    \/ \E call \in calls : CreateSessionRead(call)
    \/ \E call \in calls : CreateSessionUpdate(call)
    \/ \E call \in calls : CreateSessionAdd(call)

SpecSession == SessionInit /\ [][SessionNext]_vars

(***************************************************************************)
(* The anchor-window table and its message handlers (runtime.js            *)
(* SET_ANCHOR_WINDOW, CLEAR_ANCHOR_WINDOW, UPDATE_ANCHOR_TABS; db.js       *)
(* 327-355).  A store request takes effect when it is issued, in issue     *)
(* order; the handler goes on at a later step.  Rows carry the             *)
(* auto-incremented primary key 'id'.                                      *)
(***************************************************************************)
MaxAnchorSets == 2       \* SET_ANCHOR_WINDOW messages
MaxAnchorClears == 1     \* CLEAR_ANCHOR_WINDOW messages
MaxAnchorUpdates == 1    \* UPDATE_ANCHOR_TABS messages

\* what SET_ANCHOR_WINDOW and UPDATE_ANCHOR_TABS collect for window w: the
\* stored title and, per live tab, its url and stored timeAccumulated
anchorConfigOf(d, c, w) ==
    [windowTitle |-> IF w \in DOMAIN d.openWindows THEN d.openWindows[w].title ELSE "",
     tabs |-> MapSeq(TabsInWindow(c, w),
                     LAMBDA t : [url |-> t.url,
                                 timeAccumulated |->
                                     IF t.id \in DOMAIN d.openTabs
                                     THEN d.openTabs[t.id].timeAccumulated ELSE 0])]

\* db.anchorWindow.clear()
clearAnchorRows(d) == [d EXCEPT !.anchorWindow = <<>>]

\* db.anchorWindow.add(data): a new row under the next key
addAnchorRow(d, key, data) == [d EXCEPT !.anchorWindow = Append(@, [id |-> key] @@ data)]

\* db.anchorWindow.update(key, data): no row with the key, no change
updateAnchorRow(d, key, data) ==
    [d EXCEPT !.anchorWindow =
        [i \in DOMAIN @ |-> IF @[i].id = key THEN [id |-> key] @@ data ELSE @[i]]]

\* getAnchorWindow: the key of the first row, 0 for none
firstAnchorKey(d) == IF d.anchorWindow = <<>> THEN 0 ELSE d.anchorWindow[1].id

anchorUnchanged ==
    UNCHANGED <<chrome, sm, run, tick, listenersRegistered, pendingCreated, lastRestore,
                mIn, mOut, now, tt, log>>

AnchorMessages(e) == e.anchorSets + e.anchorClears + e.anchorUpdates

\* SET_ANCHOR_WINDOW arrives: the handler waits for chrome.tabs.query
SetAnchorMessage(w) ==
    /\ env.anchorSets < MaxAnchorSets
    /\ w \in NormalWindowIds(chrome)
    /\ env' = [env EXCEPT !.anchorSets = @ + 1]
    /\ calls' = calls \cup {Call("SET_ANCHOR_WINDOW", "query", AnchorMessages(env) + 1,
                                 [windowId |-> w])}
    /\ UNCHANGED db
    /\ anchorUnchanged

\* the queries and reads are answered; db.setAnchorWindow issues its clear
SetAnchorClear(call) ==
    /\ call.op = "SET_ANCHOR_WINDOW" /\ call.pc = "query"
    /\ db' = clearAnchorRows(db)
    /\ calls' = (calls \ {call})
                \cup {[call EXCEPT !.pc = "add",
                                   !.data = [windowId |-> call.data.windowId,
                                             config |-> anchorConfigOf(db, chrome,
                                                                       call.data.windowId)]]}
    /\ UNCHANGED env
    /\ anchorUnchanged

\* the clear has returned; db.setAnchorWindow issues its add
SetAnchorAdd(call) ==
    /\ call.op = "SET_ANCHOR_WINDOW" /\ call.pc = "add"
    /\ db' = addAnchorRow(db, env.anchorAdds + 1, call.data.config)
    /\ env' = [env EXCEPT !.anchorAdds = @ + 1]
    /\ calls' = (calls \ {call}) \cup {[call EXCEPT !.pc = "setting"]}
    /\ anchorUnchanged

\* the add has returned; setSetting('activeAnchorWindowId', windowId)
SetAnchorSetting(call) ==
    /\ call.op = "SET_ANCHOR_WINDOW" /\ call.pc = "setting"
    /\ db' = [db EXCEPT !.activeAnchorWindowId = call.data.windowId]
    /\ calls' = calls \ {call}
    /\ UNCHANGED env
    /\ anchorUnchanged

\* CLEAR_ANCHOR_WINDOW arrives: db.clearAnchorWindow issues its clear
ClearAnchorMessage ==
    /\ env.anchorClears < MaxAnchorClears
    /\ env' = [env EXCEPT !.anchorClears = @ + 1]
    /\ db' = clearAnchorRows(db)
    /\ calls' = calls \cup {Call("CLEAR_ANCHOR_WINDOW", "setting", AnchorMessages(env) + 1,
                                 NoData)}
    /\ anchorUnchanged

\* the clear has returned; setSetting('activeAnchorWindowId', null)
ClearAnchorSetting(call) ==
    /\ call.op = "CLEAR_ANCHOR_WINDOW" /\ call.pc = "setting"
    /\ db' = [db EXCEPT !.activeAnchorWindowId = 0]
    /\ calls' = calls \ {call}
    /\ UNCHANGED env
    /\ anchorUnchanged

\* UPDATE_ANCHOR_TABS arrives: the handler waits for chrome.tabs.query
UpdateAnchorMessage(w) ==
    /\ env.anchorUpdates < MaxAnchorUpdates
    /\ w \in NormalWindowIds(chrome)
    /\ env' = [env EXCEPT !.anchorUpdates = @ + 1]
    /\ calls' = calls \cup {Call("UPDATE_ANCHOR_TABS", "query", AnchorMessages(env) + 1,
                                 [windowId |-> w])}
    /\ UNCHANGED db
    /\ anchorUnchanged

\* the queries and reads are answered; db.updateAnchorWindow reads the row
UpdateAnchorRead(call) ==
    /\ call.op = "UPDATE_ANCHOR_TABS" /\ call.pc = "query"
    /\ calls' = (calls \ {call})
                \cup {[call EXCEPT !.pc = "update",
                                   !.data = [windowId |-> call.data.windowId,
                                             existing |-> firstAnchorKey(db),
                                             config |-> anchorConfigOf(db, chrome,
                                                                       call.data.windowId)]]}
    /\ UNCHANGED <<db, env>>
    /\ anchorUnchanged

\* getAnchorWindow has returned; update(existing.id, data) when there was a row
UpdateAnchorWrite(call) ==
    /\ call.op = "UPDATE_ANCHOR_TABS" /\ call.pc = "update"
    /\ db' = IF call.data.existing = 0 THEN db
             ELSE updateAnchorRow(db, call.data.existing, call.data.config)
    /\ calls' = calls \ {call}
    /\ UNCHANGED env
    /\ anchorUnchanged

\* the window's stored title changes (UPDATE_WINDOW_TITLE without the anchor part)
AnchorTitles == {"Work", "Home"}

AnchorInit ==
    /\ now = StartTime
    /\ \E a \in {<<>>, <<[id |-> 1] @@ AnchorOf(7)[1]>>}, title \in AnchorTitles :
          db = [RecoveredDb EXCEPT !.anchorWindow = a,
                                   !.activeAnchorWindowId = IF a = <<>> THEN 0 ELSE 3,
                                   !.openWindows[3].title = title]
    /\ chrome = LiveGrouped
    /\ sm = [currentSessionId |-> Len(RecoveredDb.sessions), isInitialized |-> TRUE,
             restoringTabIds |-> <<>>]
    /\ run = [r \in Runs |-> IF r = 1 THEN [Finished(IdleRun, "recovered") EXCEPT !.isMain = TRUE]
                             ELSE IdleRun]
    /\ tick = 0
    /\ listenersRegistered = TRUE
    /\ pendingCreated = {}
    /\ env = [NoMoves EXCEPT !.anchorAdds = Len(db.anchorWindow)]
    /\ lastRestore = <<>>
    /\ mIn = <<>>
    /\ mOut = <<>>
    /\ tt = NewTimeTracker
    /\ calls = {}
    /\ log = <<>>

AnchorNext ==
    \/ \E w \in DOMAIN chrome.windows : SetAnchorMessage(w)
    \/ \E call \in calls : SetAnchorClear(call)
    \/ \E call \in calls : SetAnchorAdd(call)
    \/ \E call \in calls : SetAnchorSetting(call)
    \/ ClearAnchorMessage
    \/ \E call \in calls : ClearAnchorSetting(call)
    \/ \E w \in DOMAIN chrome.windows : UpdateAnchorMessage(w)
    \/ \E call \in calls : UpdateAnchorRead(call)
    \/ \E call \in calls : UpdateAnchorWrite(call)

SpecAnchor == AnchorInit /\ [][AnchorNext]_vars

(***************************************************************************)
(* The orphan sweep (session-manager.js 739-749).  Times are milliseconds; *)
(* window records of this part carry lastAccessed.                         *)
(***************************************************************************)
MsPerDay == 86400000

\* the values of the parameter maxAgeDays (30 when the caller passes none)
MaxAgeDays == {1, 2}

RECURSIVE sweepOrphans(_, _, _)
sweepOrphans(d, orphanWindows, cutoffTime) ==
    IF orphanWindows = <<>> THEN d
    ELSE sweepOrphans(IF Head(orphanWindows).lastAccessed < cutoffTime
                      THEN deleteOrphanWindow(d, Head(orphanWindows).id)
                      ELSE d,
                      Tail(orphanWindows), cutoffTime)

cleanupOldOrphans(d, t, maxAgeDays) ==
    LET maxAgeMs == maxAgeDays * 24 * 60 * 60 * 1000
        cutoffTime == t - maxAgeMs
    IN sweepOrphans(d, getOrphanWindows(d), cutoffTime)

\* Date.now() at the sweep
SweepTime == 200000000

\* lastAccessed of the stored windows: older than two days, between one and
\* two days, exactly one day, and a second ago
AccessTimes ==
    {SweepTime - 2 * MsPerDay - 1, SweepTime - MsPerDay - 1, SweepTime - MsPerDay,
     SweepTime - 1000}

\* the store of a worker that has recovered: orphan windows 1 (two tabs, one
\* in group 201) and 2 (one tab), and the live window 3 with its tab
SweptStore(t1, t2, t3, grouped) ==
    [StoredWorkAndInternal EXCEPT
        !.openWindows = (1 :> [isOrphan |-> 1, title |-> "Work", lastAccessed |-> t1])
                        @@ (2 :> [isOrphan |-> 1, title |-> "", lastAccessed |-> t2])
                        @@ (3 :> [isOrphan |-> 0, title |-> "", lastAccessed |-> t3]),
        !.openTabs = (101 :> [StoredTab(1, UrlA, 5, IF grouped THEN 201 ELSE 0)
                                 EXCEPT !.isOrphan = 1])
                     @@ (102 :> [StoredTab(1, UrlB, 0, 0) EXCEPT !.isOrphan = 1])
                     @@ (103 :> [StoredTab(2, UrlChrome, 0, 0) EXCEPT !.isOrphan = 1])
                     @@ (4 :> StoredTab(3, UrlA2, 0, 0)),
        !.tabGroups = IF grouped
                      THEN (201 :> [windowId |-> 1, isOrphan |-> 1, title |-> "G"])
                      ELSE <<>>,
        !.sessions = <<0, 1>>]

SweepInit ==
    /\ now = SweepTime
    /\ \E t1 \in AccessTimes, t2 \in AccessTimes, t3 \in AccessTimes, grouped \in BOOLEAN :
          db = SweptStore(t1, t2, t3, grouped)
    /\ chrome = LiveOther
    /\ sm = [currentSessionId |-> 2, isInitialized |-> TRUE, restoringTabIds |-> <<>>]
    /\ run = [r \in Runs |-> IF r = 1 THEN [Finished(IdleRun, "recovered") EXCEPT !.isMain = TRUE]
                             ELSE IdleRun]
    /\ tick = 0
    /\ listenersRegistered = TRUE
    /\ pendingCreated = {}
    /\ env = NoMoves
    /\ lastRestore = <<>>
    /\ mIn = <<>>
    /\ mOut = <<>>
    /\ tt = NewTimeTracker
    /\ calls = {}
    /\ log = <<>>

\* a call of cleanupOldOrphans(maxAgeDays)
CleanupOldOrphans(maxAgeDays) ==
    /\ log = <<>>
    /\ db' = cleanupOldOrphans(db, now, maxAgeDays)
    /\ log' = <<[op |-> "cleanupOldOrphans", id |-> maxAgeDays]>>
    /\ UNCHANGED <<chrome, sm, run, tick, listenersRegistered, pendingCreated, env,
                   lastRestore, mIn, mOut, now, tt, calls>>

SweepNext == \E maxAgeDays \in MaxAgeDays : CleanupOldOrphans(maxAgeDays)

SpecSweep == SweepInit /\ [][SweepNext]_vars

(***************************************************************************)
(* The worker keeps running after recovery: days pass and the user moves   *)
(* between the live windows.  No listener, alarm or timer of the worker    *)
(* calls cleanupOldOrphans.                                                *)
(***************************************************************************)
MaxDays == 3             \* days the clock runs on

\* a day passes
DayPasses ==
    /\ now < SweepTime + MaxDays * MsPerDay
    /\ now' = now + MsPerDay
    /\ UNCHANGED <<db, chrome, sm, run, tick, listenersRegistered, pendingCreated, env,
                   lastRestore, mIn, mOut, tt, calls, log>>

\* windows.onFocusChanged(w): db.updateWindow(w, {lastAccessed: Date.now()})
WindowFocused(w) ==
    /\ w \in DOMAIN chrome.windows
    /\ db' = IF w \in DOMAIN db.openWindows
             THEN [db EXCEPT !.openWindows[w].lastAccessed = now] ELSE db
    /\ UNCHANGED <<chrome, sm, run, tick, listenersRegistered, pendingCreated, env,
                   lastRestore, mIn, mOut, now, tt, calls, log>>

RunningNext ==
    \/ DayPasses
    \/ \E w \in DOMAIN chrome.windows : WindowFocused(w)

\* the clock does not stop
FairSpecRunning == SweepInit /\ [][RunningNext]_vars /\ WF_vars(DayPasses)

(***************************************************************************)
(* The matcher on its own: inputs drawn from bounded sets.                 *)
(***************************************************************************)
\* multisets of at most MaxTabsPerWindow URLs, as sequences in a fixed order
UrlOrder == <<UrlA, UrlA2, UrlB, UrlChrome>>

UrlLists(maxLen) ==
    {s \in UNION {[1..n -> 1..Len(UrlOrder)] : n \in 0..maxLen} :
        \A i \in 1..(Len(s) - 1) : s[i] <= s[i + 1]}

TabsOf(windowId, list) ==
    [i \in 1..Len(list) |-> [windowId |-> windowId, url |-> UrlOrder[list[i]]]]

MatchInit ==
    /\ \E l1 \in UrlLists(MaxTabsPerWindow), l2 \in UrlLists(MaxTabsPerWindow),
          l3 \in UrlLists(MaxTabsPerWindow), l4 \in UrlLists(MaxTabsPerWindow - 1) :
          mIn = [orphanWindows |-> <<[id |-> 1], [id |-> 2]>>,
                 currentWindows |-> <<[id |-> 3], [id |-> 4]>>,
                 orphanTabs |-> TabsOf(1, l1) \o TabsOf(2, l2),
                 currentTabs |-> TabsOf(3, l3) \o TabsOf(4, l4)]
    /\ mOut = <<>>
    /\ db = EmptyDb
    /\ chrome = NoWindows
    /\ sm = [currentSessionId |-> 0, isInitialized |-> FALSE, restoringTabIds |-> <<>>]
    /\ run = [r \in Runs |-> IdleRun]
    /\ tick = [r \in Runs |-> 0]
    /\ listenersRegistered = FALSE
    /\ pendingCreated = {}
    /\ env = NoMoves
    /\ lastRestore = <<>>
    /\ now = StartTime
    /\ tt = NewTimeTracker
    /\ calls = {}
    /\ log = <<>>

MatchCall ==
    /\ mOut = <<>>
    /\ \E r \in findBestMatches(mIn.orphanWindows, mIn.currentWindows,
                                 mIn.orphanTabs, mIn.currentTabs) :
          mOut' = <<r>>
    /\ UNCHANGED <<mIn, lifecycleVars, now, tt, calls, log>>

MatchNext == MatchCall

SpecMatch == MatchInit /\ [][MatchNext]_vars

\* C5: in the result of findBestMatches no window id is the orphan side of
\* two accepted matches, none is the current side of two, and every accepted
\* match has confidence >= 0.35.
C5_MatchesOneToOneAboveThreshold ==
    mOut # <<>> =>
        LET matched == mOut[1].matched
        IN /\ \A i, j \in DOMAIN matched :
                 i # j => /\ matched[i].orphanWindow.id # matched[j].orphanWindow.id
                          /\ matched[i].currentWindow.id # matched[j].currentWindow.id
           /\ \A i \in DOMAIN matched :
                 matched[i].confidence.num * 20 >= 7 * matched[i].confidence.den

\* two orphans compete for one current window and both pairs pass the threshold
C5_Witness ==
    /\ mOut # <<>>
    /\ Len(mOut[1].matched) = 1
    /\ Len(mOut[1].unmatchedOrphans) = 1
    /\ \E k \in 1..4 :
          LET s == PairScores(mIn.orphanWindows, mIn.currentWindows,
                              mIn.orphanTabs, mIn.currentTabs)[k]
          IN /\ s.orphanWindow.id = mOut[1].unmatchedOrphans[1].id
             /\ s.currentWindow.id = mOut[1].matched[1].currentWindow.id
             /\ ~BelowThreshold(s.score)

(***************************************************************************)
(* findAnchorWindow on its own: the anchor config and the live windows are *)
(* drawn from bounded sets.                                                *)
(***************************************************************************)
MaxSavedTabs == 3        \* tabs saved in the anchor config

\* the urls a saved tab can hold; the last is the empty string
SavedUrlOrder == <<UrlA, UrlA2, UrlB, NoUrl>>

\* windows 3 and 4 with the tabs of the two lists
LiveWith(l3, l4) ==
    [NoWindows EXCEPT
        !.windows = (3 :> [type |-> "normal"]) @@ (4 :> [type |-> "normal"]),
        !.tabs = [x \in {30 + i : i \in 1..Len(l3)} \cup {40 + i : i \in 1..Len(l4)} |->
                     IF x < 40 THEN LiveTab(3, UrlOrder[l3[x - 30]], 0)
                     ELSE LiveTab(4, UrlOrder[l4[x - 40]], 0)]]

FindInit ==
    /\ now = StartTime
    /\ \E saved \in UrlLists(MaxSavedTabs), l3 \in UrlLists(MaxTabsPerWindow),
          l4 \in UrlLists(MaxTabsPerWindow), order \in {<<3, 4>>, <<4, 3>>} :
          /\ mIn = [anchorConfig |->
                        [windowTitle |-> "Anchor",
                         tabs |-> [i \in 1..Len(saved) |->
                                      [url |-> SavedUrlOrder[saved[i]], timeAccumulated |-> 0]]],
                    browserWindows |-> order]
          /\ chrome = LiveWith(l3, l4)
    /\ mOut = <<>>
    /\ db = EmptyDb
    /\ sm = [currentSessionId |-> 0, isInitialized |-> FALSE, restoringTabIds |-> <<>>]
    /\ run = [r \in Runs |-> IdleRun]
    /\ tick = [r \in Runs |-> 0]
    /\ listenersRegistered = FALSE
    /\ pendingCreated = {}
    /\ env = NoMoves
    /\ lastRestore = <<>>
    /\ tt = NewTimeTracker
    /\ calls = {}
    /\ log = <<>>

FindAnchorCall ==
    /\ mOut = <<>>
    /\ mOut' = <<findAnchorWindowIn(mIn.browserWindows, chrome, mIn.anchorConfig)>>
    /\ UNCHANGED <<mIn, lifecycleVars, now, tt, calls, log>>

FindNext == FindAnchorCall

SpecFind == FindInit /\ [][FindNext]_vars

(***************************************************************************)
(* The recovery banner's actions (runtime.js 15-34; session-manager.js     *)
(* 550-737), one step per wait on the recoveryResult setting.  What a      *)
(* handler does to the orphan's own records and to the browser before it   *)
(* turns to the setting is taken as one step.  The row of the setting      *)
(* carries an auto-incremented key: mIn.rowKey is the key of the stored    *)
(* row, mIn.nextKey the next key the table gives out.                      *)
(***************************************************************************)
MaxPendingActions == 2   \* RESTORE / DISCARD / KEEP messages

PendingTypes == {"RESTORE_UNMATCHED_WINDOW", "DISCARD_UNMATCHED_WINDOW",
                 "KEEP_UNMATCHED_FOR_LATER"}

pendingUnchanged ==
    UNCHANGED <<run, tick, listenersRegistered, pendingCreated, lastRestore, mOut, now, tt>>

\* one of the three messages arrives for a window the banner lists
PendingMessage(type, w) ==
    /\ env.pendingActions < MaxPendingActions
    /\ w \in PendingIds(db)
    /\ ~\E call \in calls : call.id = w
    /\ env' = [env EXCEPT !.pendingActions = @ + 1]
    /\ calls' = calls \cup
          {Call(type, IF type = "KEEP_UNMATCHED_FOR_LATER" THEN "read" ELSE "body", w,
                [windowId |-> 0, unmatchedOrphans |-> <<>>, key |-> 0])}
    /\ UNCHANGED <<db, chrome, sm, mIn, log>>
    /\ pendingUnchanged

\* discardUnmatchedWindow up to removeUnmatchedFromRecovery: the orphan's tab
\* groups, tabs and window are deleted
DiscardBody(call) ==
    /\ call \in calls
    /\ call.op = "DISCARD_UNMATCHED_WINDOW" /\ call.pc = "body"
    /\ LET orphanGroups == getOrphanTabGroupsByWindowId(db, call.id)
       IN db' = deleteOrphanWindow(
                   removeTabGroups(db, {orphanGroups[i].id : i \in DOMAIN orphanGroups}),
                   call.id)
    /\ calls' = (calls \ {call}) \cup {[call EXCEPT !.pc = "read"]}
    /\ UNCHANGED <<chrome, sm, env, mIn, log>>
    /\ pendingUnchanged

\* restoreUnmatchedWindow up to removeUnmatchedFromRecovery, the window
\* creation succeeding: the window is recreated and the orphan records deleted
RestoreBody(call) ==
    /\ call \in calls
    /\ call.op = "RESTORE_UNMATCHED_WINDOW" /\ call.pc = "body"
    /\ LET after == restoreUnmatchedWindow(db, chrome, sm, call.id, FALSE)
       IN /\ db' = [after.db EXCEPT !.recoveryResult = db.recoveryResult]
          /\ chrome' = after.chrome
          /\ sm' = after.sm
          /\ calls' = (calls \ {call})
                \cup {[call EXCEPT !.pc = "read", !.data.windowId = after.windowId]}
    /\ UNCHANGED <<env, mIn, log>>
    /\ pendingUnchanged

\* the handler returns
PendingDone(call) == Append(log, [op |-> call.op, id |-> call.id])

\* removeUnmatchedFromRecovery: getRecoveryResult has returned; without a
\* stored result the handler returns, else the window is filtered out of
\* the copy read
PendingRead(call) ==
    /\ call \in calls
    /\ call.op \in PendingTypes /\ call.pc = "read"
    /\ IF db.recoveryResult = <<>>
       THEN /\ calls' = calls \ {call}
            /\ log' = PendingDone(call)
       ELSE /\ calls' = (calls \ {call})
                  \cup {[call EXCEPT !.pc = "existing",
                                     !.data.unmatchedOrphans =
                                         SelectSeq(db.recoveryResult[1].unmatchedOrphans,
                                                   LAMBDA x : x.windowId # call.id)]}
            /\ UNCHANGED log
    /\ UNCHANGED <<db, chrome, sm, env, mIn>>
    /\ pendingUnchanged

\* updateRecoveryResult: dismissRecovery or setSetting has read the row of
\* the setting; dismissRecovery without a row returns
PendingExisting(call) ==
    /\ call \in calls
    /\ call.op \in PendingTypes /\ call.pc = "existing"
    /\ IF call.data.unmatchedOrphans = <<>> /\ db.recoveryResult = <<>>
       THEN /\ calls' = calls \ {call}
            /\ log' = PendingDone(call)
       ELSE /\ calls' = (calls \ {call})
                  \cup {[call EXCEPT !.pc = "write",
                                     !.data.key = IF db.recoveryResult = <<>> THEN 0
                                                  ELSE mIn.rowKey]}
            /\ UNCHANGED log
    /\ UNCHANGED <<db, chrome, sm, env, mIn>>
    /\ pendingUnchanged

\* the write by the key read: removeSetting(existing.id) for an empty list,
\* settings.update(existing.id, {value}) for a row found, settings.add
\* otherwise; a delete or update of a key no longer stored changes nothing
writeRecoveryRow(d, rowKey, key, unmatchedOrphans) ==
    LET stored == d.recoveryResult # <<>> /\ rowKey = key
    IN IF unmatchedOrphans = <<>>
       THEN IF stored THEN [d EXCEPT !.recoveryResult = Tail(@)] ELSE d
       ELSE IF key # 0
       THEN IF stored
            THEN [d EXCEPT !.recoveryResult[1].unmatchedOrphans = unmatchedOrphans]
            ELSE d
       ELSE [d EXCEPT !.recoveryResult =
                Append(@, [matched |-> <<>>, unmatchedOrphans |-> unmatchedOrphans])]

PendingWrite(call) ==
    /\ call \in calls
    /\ call.op \in PendingTypes /\ call.pc = "write"
    /\ db' = writeRecoveryRow(db, mIn.rowKey, call.data.key, call.data.unmatchedOrphans)
    /\ mIn' = IF call.data.unmatchedOrphans # <<>> /\ call.data.key = 0
              THEN [rowKey |-> IF db.recoveryResult = <<>> THEN mIn.nextKey ELSE mIn.rowKey,
                    nextKey |-> mIn.nextKey + 1]
              ELSE mIn
    /\ calls' = calls \ {call}
    /\ log' = PendingDone(call)
    /\ UNCHANGED <<chrome, sm, env>>
    /\ pendingUnchanged

PendingInit ==
    /\ now = StartTime
    /\ db = RecoveredDb
    /\ chrome = LiveGrouped
    /\ sm = [currentSessionId |-> Len(RecoveredDb.sessions), isInitialized |-> TRUE,
             restoringTabIds |-> <<>>]
    /\ run = [r \in Runs |-> IF r = 1 THEN [Finished(IdleRun, "recovered") EXCEPT !.isMain = TRUE]
                             ELSE IdleRun]
    /\ tick = [r \in Runs |-> 0]
    /\ listenersRegistered = TRUE
    /\ pendingCreated = {}
    /\ env = NoMoves
    /\ lastRestore = <<>>
    /\ mIn = [rowKey |-> 1, nextKey |-> 2]
    /\ mOut = <<>>
    /\ tt = NewTimeTracker
    /\ calls = {}
    /\ log = <<>>

PendingNext ==
    \/ \E type \in PendingTypes, w \in DOMAIN RecoveredDb.openWindows : PendingMessage(type, w)
    \/ \E call \in calls : DiscardBody(call)
    \/ \E call \in calls : RestoreBody(call)
    \/ \E call \in calls : PendingRead(call)
    \/ \E call \in calls : PendingExisting(call)
    \/ \E call \in calls : PendingWrite(call)

SpecPending == PendingInit /\ [][PendingNext]_vars

(***************************************************************************)
(* restoreTabGroupTitles on its own: a matched pair of the orphan window 1 *)
(* and the live window 3, their tabs spread over up to two groups each.    *)
(* mIn keeps the store and the browser the call started from.              *)
(***************************************************************************)
OrphanGroupTabs == 2     \* tabs of the orphan window
LiveGroupTabs == 2       \* tabs of the live window

GroupUrls == {UrlA, UrlA2, UrlB}

\* the store of the previous process, marked orphan
OrphanGrouped(urls, groupIds, title) ==
    [EmptyDb EXCEPT
        !.openWindows = (1 :> [NewWindowRecord("Work") EXCEPT !.isOrphan = 1]),
        !.openTabs = [x \in {100 + i : i \in DOMAIN urls} |->
                         [StoredTab(1, urls[x - 100], 0, groupIds[x - 100])
                             EXCEPT !.isOrphan = 1]],
        !.tabGroups = (201 :> [windowId |-> 1, isOrphan |-> 1, title |-> title])
                      @@ (202 :> [windowId |-> 1, isOrphan |-> 1, title |-> "H"]),
        !.sessions = <<0, 1>>]

\* the browser after the restart: window 3 with tabs 4, 5, ... and the
\* groups its tabs are in
LiveGroups(urls, groupIds, title) ==
    [NoWindows EXCEPT
        !.windows = (3 :> [type |-> "normal"]),
        !.tabs = [x \in {3 + i : i \in DOMAIN urls} |-> LiveTab(3, urls[x - 3], groupIds[x - 3])],
        !.tabGroups = [g \in {groupIds[i] : i \in DOMAIN groupIds} \ {0} |->
                          [windowId |-> 3, title |-> IF g = 6 THEN title ELSE ""]]]

GroupsInit ==
    /\ now = StartTime
    /\ \E ourls \in [1..OrphanGroupTabs -> GroupUrls],
          ogids \in [1..OrphanGroupTabs -> {0, 201, 202}],
          lurls \in [1..LiveGroupTabs -> GroupUrls],
          lgids \in [1..LiveGroupTabs -> {0, 6, 7}],
          otitle \in {"", "G"}, ltitle \in {"", "L"} :
          /\ chrome = LiveGroups(lurls, lgids, ltitle)
          /\ db = insertBrowserState(OrphanGrouped(ourls, ogids, otitle), chrome, {3})
    /\ mIn = [db |-> db, chrome |-> chrome]
    /\ mOut = <<>>
    /\ sm = [currentSessionId |-> 2, isInitialized |-> FALSE, restoringTabIds |-> <<>>]
    /\ run = [r \in Runs |-> IdleRun]
    /\ tick = [r \in Runs |-> 0]
    /\ listenersRegistered = TRUE
    /\ pendingCreated = {}
    /\ env = NoMoves
    /\ lastRestore = <<>>
    /\ tt = NewTimeTracker
    /\ calls = {}
    /\ log = <<>>

\* performRecovery calls restoreTabGroupTitles for the matched pair (1, 3)
RestoreTabGroupTitlesCall ==
    /\ mOut = <<>>
    /\ LET after == restoreTabGroupTitles(db, chrome, 1, 3,
                        getOrphanTabsByWindowId(db, 1), TabsInWindow(chrome, 3))
       IN /\ db' = after.db
          /\ chrome' = after.chrome
    /\ mOut' = <<[orphanWindowId |-> 1, currentWindowId |-> 3]>>
    /\ UNCHANGED <<sm, run, tick, listenersRegistered, pendingCreated, env, lastRestore,
                   mIn, now, tt, calls, log>>

GroupsNext == RestoreTabGroupTitlesCall

SpecGroups == GroupsInit /\ [][GroupsNext]_vars

(***************************************************************************)
(* The deferred start: the worker starts with no normal window open, and   *)
(* the browser then opens the windows of its session one after the other.  *)
(* No call rejects.  initialize issues the read of detectBrowserRestart    *)
(* in the turn that starts it; the creation handlers first wait for        *)
(* chrome.alarms.clear, so the write of a handler that runs while a run    *)
(* is at its read is ordered after that read.                              *)
(***************************************************************************)
MaxSessionWindows == 2   \* normal windows the browser opens

\* the browser opens a normal window
SessionWindowOpens(urls) ==
    /\ env.created < MaxSessionWindows
    /\ sm.isInitialized \/ FreeRuns(run) # {}
    /\ chrome' = OpenWindow(chrome, urls)
    /\ pendingCreated' = Delivered(pendingCreated, listenersRegistered,
                                   OpenWindow(chrome, urls), chrome.nextId)
    /\ run' = DeferredListener(run, sm.isInitialized)
    /\ env' = [env EXCEPT !.created = @ + 1]
    /\ UNCHANGED <<db, sm, listenersRegistered, lastRestore, auxVars>>
    /\ UNCHANGED tick

\* windows.onCreated and tabs.onCreated write after the reads already issued
HandleCreatedInOrder(e) ==
    /\ \A r \in Runs : run[r].pc # "detect"
    /\ HandleCreated(e)

DeferredNext ==
    \/ \E r \in Runs : RunStep(r)
    \/ \E urls \in CreatedUrlLists : SessionWindowOpens(urls)
    \/ \E e \in pendingCreated : HandleCreatedInOrder(e)
    \/ \E w \in DOMAIN chrome.windows : WindowClosed(w)
    \/ \E a \in chrome.alarms : a[1] = "remove-window" /\ AlarmFires(a[2])

SpecDeferred == FairInit /\ [][DeferredNext]_vars

(***************************************************************************)
(* The user closes a window of the running browser: tabs.onRemoved with    *)
(* isWindowClosing for each of its tabs, then windows.onRemoved, one step  *)
(* per await that waits.  Window 3 is the bound anchor window; a second    *)
(* window keeps the browser running.  The handlers take no time: the       *)
(* clock moves only while none is in progress.                             *)
(***************************************************************************)
\* the browser with the anchor window 3 and a second window 9 (tab 10)
LiveAnchored == [OpenWindow(LiveTracked, <<UrlB>>) EXCEPT !.active = @ @@ (9 :> 10)]

\* the store of the running extension: window 3 is bound, and the config is
\* the snapshot syncAnchorWindowIfNeeded has taken of it
AnchoredDb(title) ==
    LET seen == addTab(addWindow(RecoveredDb, 9, NewWindowRecord("")),
                       10, NewTabRecord(LiveTab(9, UrlB, 0), 9, 0))
        bound == [seen EXCEPT !.anchorWindow = AnchorOf(0),
                              !.activeAnchorWindowId = 3,
                              !.openWindows[3].title = title]
    IN syncAnchorWindowIfNeeded(bound, LiveAnchored, 3)

CloseInit ==
    /\ now = StartTime
    /\ \E title \in AnchorTitles : db = AnchoredDb(title)
    /\ chrome = LiveAnchored
    /\ sm = [currentSessionId |-> Len(RecoveredDb.sessions), isInitialized |-> TRUE,
             restoringTabIds |-> <<>>]
    /\ run = [r \in Runs |-> IF r = 1 THEN [Finished(IdleRun, "recovered") EXCEPT !.isMain = TRUE]
                             ELSE IdleRun]
    /\ tick = 0
    /\ listenersRegistered = TRUE
    /\ pendingCreated = {}
    /\ env = NoMoves
    /\ lastRestore = <<>>
    /\ mIn = <<>>
    /\ mOut = <<>>
    /\ \E t \in {4, 5} :
          tt = [activeTabId |-> t, activeWindowId |-> 3, lastActiveTime |-> StartTime,
                isWindowFocused |-> TRUE]
    /\ calls = {}
    /\ log = <<>>

closeUnchanged == <<sm, run, tick, listenersRegistered, pendingCreated,
                    lastRestore, mIn, mOut, now, log>>

\* the user closes window w: the browser removes it with its tabs and raises
\* tabs.onRemoved(t, {isWindowClosing: true}) for each tab and windows.onRemoved
UserClosesWindow(w) ==
    /\ env.closed < MaxClosed
    /\ w \in NormalWindowIds(chrome)
    /\ chrome' = [CloseWindow(chrome, w) EXCEPT !.active = Remove(@, {w})]
    /\ calls' = calls
          \cup {[op |-> "tabs.onRemoved", pc |-> "clear", id |-> t,
                 data |-> [windowId |-> w, isWindowClosing |-> TRUE],
                 pending |-> FALSE] :
                    t \in {x \in DOMAIN chrome.tabs : chrome.tabs[x].windowId = w}}
          \cup {[op |-> "windows.onRemoved", pc |-> "alarm", id |-> w,
                 data |-> NoData, pending |-> FALSE]}
    /\ env' = [env EXCEPT !.closed = @ + 1]
    /\ UNCHANGED <<db, tt>>
    /\ UNCHANGED closeUnchanged

\* tabs.onRemoved of a closing window after chrome.alarms.clear:
\* timeTracker.onTabRemoved either returns at once or waits in flushTime;
\* no alarm and no anchor sync follow
ClosingTabFlush(call) ==
    /\ call \in calls
    /\ call.op = "tabs.onRemoved"
    /\ call.pc = "schedule"
    /\ "isWindowClosing" \in DOMAIN call.data
    /\ IF call.id = tt.activeTabId /\ ~flushBegin(tt).done
       THEN /\ calls' = (calls \ {call}) \cup
                  {[call EXCEPT !.pc = "flush",
                                !.data = [windowId |-> call.data.windowId,
                                          isWindowClosing |-> TRUE,
                                          flush |-> flushBegin(tt)]]}
            /\ UNCHANGED tt
       ELSE /\ tt' = IF call.id = tt.activeTabId
                     THEN [flushBegin(tt).tt EXCEPT !.activeTabId = 0, !.lastActiveTime = 0]
                     ELSE tt
            /\ calls' = calls \ {call}
    /\ UNCHANGED <<db, chrome, env>>
    /\ UNCHANGED closeUnchanged

\* db.getTab answers the flushTime of that handler: the write, the
\* onTimeFlush callback, then activeTabId and lastActiveTime are cleared
ClosingFlushAnswered(call) ==
    /\ call \in calls
    /\ call.op = "tabs.onRemoved"
    /\ call.pc = "flush"
    /\ "isWindowClosing" \in DOMAIN call.data
    /\ LET flushed == flushEnd(db, chrome, tt, call.data.flush)
       IN /\ db' = flushed.db
          /\ tt' = [flushed.tt EXCEPT !.activeTabId = 0, !.lastActiveTime = 0]
    /\ calls' = calls \ {call}
    /\ UNCHANGED <<chrome, env>>
    /\ UNCHANGED closeUnchanged

\* windows.onRemoved: chrome.alarms.create completes
WindowRemovedAlarm(call) ==
    /\ call \in calls
    /\ call.op = "windows.onRemoved"
    /\ call.pc = "alarm"
    /\ chrome' = createAlarm(chrome, <<"remove-window", call.id>>)
    /\ calls' = (calls \ {call}) \cup {[call EXCEPT !.pc = "read"]}
    /\ UNCHANGED <<db, tt, env>>
    /\ UNCHANGED closeUnchanged

\* windows.onRemoved: db.getSetting('activeAnchorWindowId') answers
WindowRemovedRead(call) ==
    /\ call \in calls
    /\ call.op = "windows.onRemoved"
    /\ call.pc = "read"
    /\ calls' = (calls \ {call}) \cup
          (IF db.activeAnchorWindowId # 0 /\ db.activeAnchorWindowId = call.id
           THEN {[call EXCEPT !.pc = "set"]} ELSE {})
    /\ UNCHANGED <<db, chrome, tt, env>>
    /\ UNCHANGED closeUnchanged

\* windows.onRemoved: db.setSetting('activeAnchorWindowId', null)
WindowRemovedSet(call) ==
    /\ call \in calls
    /\ call.op = "windows.onRemoved"
    /\ call.pc = "set"
    /\ db' = [db EXCEPT !.activeAnchorWindowId = 0]
    /\ calls' = calls \ {call}
    /\ UNCHANGED <<chrome, tt, env>>
    /\ UNCHANGED closeUnchanged

CloseNext ==
    \/ \E w \in DOMAIN chrome.windows : UserClosesWindow(w)
    \/ \E call \in calls : TabRemovedClear(call)
    \/ \E call \in calls : ClosingTabFlush(call)
    \/ \E call \in calls : ClosingFlushAnswered(call)
    \/ \E call \in calls : WindowRemovedAlarm(call)
    \/ \E call \in calls : WindowRemovedRead(call)
    \/ \E call \in calls : WindowRemovedSet(call)
    \/ \E d \in TimeDelays : calls = {} /\ TimeTick(d)

SpecClose == CloseInit /\ [][CloseNext]_vars

(***************************************************************************)
(* Browser ids.  The browser numbers windows, tabs and groups anew in      *)
(* every browser session, so an id of the running browser can be the id of *)
(* a record stored in an earlier session.  The worker classifies each      *)
(* start, marks and records or synchronises, and then the user opens tabs, *)
(* resolves pending orphan windows and closes windows.  The live pages     *)
(* match no stored window.                                                 *)
(***************************************************************************)
MaxRestarts == 2          \* starts of the worker after the first
MaxTabsOpened == 1        \* tabs the user opens
WindowIdChoices == {1, 3}
TabIdChoices == {101, 4}
GroupIdChoices == {201, 6}

\* the running browser: window w with tab t in group g
LiveAs(w, t, g) ==
    [NoWindows EXCEPT !.windows = (w :> [type |-> "normal"]),
                      !.tabs = (t :> LiveTab(w, UrlA2, g)),
                      !.tabGroups = (g :> [windowId |-> w, title |-> ""])]

idsUnchanged == <<sm, run, tick, listenersRegistered, pendingCreated, lastRestore,
                  mOut, now, tt, calls, log>>

IdsInit ==
    /\ now = StartTime
    /\ db = StoredWorkAndInternal
    /\ \E w \in WindowIdChoices, t \in TabIdChoices, g \in GroupIdChoices :
          chrome = LiveAs(w, t, g)
    /\ sm = [currentSessionId |-> 1, isInitialized |-> FALSE, restoringTabIds |-> <<>>]
    /\ run = [r \in Runs |-> IdleRun]
    /\ tick = 0
    /\ listenersRegistered = TRUE
    /\ pendingCreated = {}
    /\ env = NoMoves
    /\ lastRestore = <<>>
    /\ mIn = [phase |-> "start", starts |-> 0]
    /\ mOut = <<>>
    /\ tt = NewTimeTracker
    /\ calls = {}
    /\ log = <<>>

\* the classification of this start by detectBrowserRestart
StartIsRestart ==
    detectBrowserRestart({x \in DOMAIN db.openWindows : db.openWindows[x].isOrphan # 1},
                         NormalWindowIds(chrome)).isRestart

\* initialize, restart: markAllCurrentAsOrphans and createSession
MarkOrphans ==
    /\ mIn.phase = "start"
    /\ StartIsRestart
    /\ db' = createSession(markTabGroupsAsOrphans(markWindowsAsOrphans(markTabsAsOrphans(db))))
    /\ mIn' = [mIn EXCEPT !.phase = "marked"]
    /\ UNCHANGED <<chrome, env>>
    /\ UNCHANGED idsUnchanged

\* performRecovery, "Add current browser state to DB"
InsertSnapshot ==
    /\ mIn.phase = "marked"
    /\ db' = insertBrowserState(db, chrome, NormalWindowIds(chrome))
    /\ mIn' = [mIn EXCEPT !.phase = "inserted"]
    /\ UNCHANGED <<chrome, env>>
    /\ UNCHANGED idsUnchanged

\* performRecovery from getOrphanWindows on: nothing matches, every orphan
\* window is listed as unmatched
RecordResult ==
    /\ mIn.phase = "inserted"
    /\ db' = updateRecoveryResult(db,
                recoveryResultOf([matched |-> <<>>, unmatchedOrphans |-> getOrphanWindows(db)],
                                 getOrphanTabs(db)))
    /\ mIn' = [mIn EXCEPT !.phase = "running"]
    /\ UNCHANGED <<chrome, env>>
    /\ UNCHANGED idsUnchanged

\* initialize, no restart: syncCurrentBrowserState
SyncCurrent ==
    /\ mIn.phase = "start"
    /\ ~StartIsRestart
    /\ db' = syncCurrentBrowserState(db, chrome)
    /\ mIn' = [mIn EXCEPT !.phase = "running"]
    /\ mOut' = <<db>>
    /\ UNCHANGED <<chrome, env>>
    /\ UNCHANGED <<sm, run, tick, listenersRegistered, pendingCreated, lastRestore,
                   now, tt, calls, log>>

\* the browser is restarted and numbers its window, tab and group anew
BrowserRestarts(w, t, g) ==
    /\ mIn.phase = "running"
    /\ mIn.starts < MaxRestarts
    /\ chrome' = LiveAs(w, t, g)
    /\ mIn' = [phase |-> "start", starts |-> mIn.starts + 1]
    /\ UNCHANGED <<db, env>>
    /\ UNCHANGED idsUnchanged

\* the worker alone is restarted in the running browser
WorkerRestarts ==
    /\ mIn.phase = "running"
    /\ mIn.starts < MaxRestarts
    /\ mIn' = [phase |-> "start", starts |-> mIn.starts + 1]
    /\ UNCHANGED <<db, chrome, env>>
    /\ UNCHANGED idsUnchanged

\* the user opens a tab, which the browser numbers t: tabs.onCreated
UserOpensTabAs(w, t) ==
    /\ mIn.phase = "running"
    /\ env.tabsCreated < MaxTabsOpened
    /\ w \in NormalWindowIds(chrome)
    /\ t \notin DOMAIN chrome.tabs
    /\ chrome' = OpenTab(chrome, t, w, UrlB)
    /\ db' = addTab(db, t, NewTabRecord(LiveTab(w, UrlB, 0), w, 0))
    /\ env' = [env EXCEPT !.tabsCreated = @ + 1]
    /\ UNCHANGED mIn
    /\ UNCHANGED idsUnchanged

\* discardUnmatchedWindow
discardUnmatchedWindow(d, orphanWindowId) ==
    LET orphanGroups == getOrphanTabGroupsByWindowId(d, orphanWindowId)
    IN removeUnmatchedFromRecovery(
           deleteOrphanWindow(
               removeTabGroups(d, {orphanGroups[i].id : i \in DOMAIN orphanGroups}),
               orphanWindowId),
           orphanWindowId)

\* the popup discards a window of the recovery list
DiscardPending(w) ==
    /\ mIn.phase = "running"
    /\ w \in PendingIds(db)
    /\ db' = discardUnmatchedWindow(db, w)
    /\ UNCHANGED <<chrome, env, mIn>>
    /\ UNCHANGED idsUnchanged

\* the user closes window w and the alarm remove-window-<w> fires:
\* db.removeWindow, then db.removeTab for every tab of getTabsByWindowId
ClosedWindowRemoved(w) ==
    /\ mIn.phase = "running"
    /\ env.closed < MaxClosed
    /\ w \in NormalWindowIds(chrome)
    /\ chrome' = CloseWindow(chrome, w)
    /\ db' = [db EXCEPT
                 !.openWindows = Remove(@, {w}),
                 !.openTabs = Remove(@, {x \in DOMAIN @ : @[x].windowId = w})]
    /\ env' = [env EXCEPT !.closed = @ + 1]
    /\ UNCHANGED mIn
    /\ UNCHANGED idsUnchanged

IdsNext ==
    \/ MarkOrphans
    \/ InsertSnapshot
    \/ RecordResult
    \/ SyncCurrent
    \/ \E w \in WindowIdChoices, t \in TabIdChoices, g \in GroupIdChoices :
          BrowserRestarts(w, t, g)
    \/ WorkerRestarts
    \/ \E w \in DOMAIN chrome.windows, t \in TabIdChoices : UserOpensTabAs(w, t)
    \/ \E w \in PendingIds(db) : DiscardPending(w)
    \/ \E w \in DOMAIN chrome.windows : ClosedWindowRemoved(w)

SpecIds == IdsInit /\ [][IdsNext]_vars

(***************************************************************************)
(* Properties of the session lifecycle.                                    *)
(***************************************************************************)
\* C1: detectBrowserRestart, when a normal window is live, reports a restart
\* if and only if a non-orphan window is stored and no stored non-orphan
\* window id is the id of a live normal window; it reports no restart when
\* the id sets share an id, and none when no non-orphan window is stored.
C1_RestartIffDisjointIds ==
    \A r \in Runs :
        (run[r].pc \in {"mark_tabs", "sync_state"} /\ run[r].detection # <<>>) =>
            LET detection == run[r].detection[1]
                stored == run[r].storedIds
                live == run[r].liveIds
            IN /\ live # {} =>
                     (detection.isRestart <=> (stored # {} /\ stored \cap live = {}))
               /\ (live # {} /\ stored \cap live # {}) => ~detection.isRestart
               /\ stored = {} => ~detection.isRestart

\* a run has compared stored ids with live ids and reports a restart
C1_Witness ==
    \E r \in Runs :
        /\ run[r].pc = "mark_tabs"
        /\ run[r].detection # <<>>
        /\ run[r].detection[1].isRestart
        /\ run[r].storedIds # {}
        /\ run[r].liveIds # {}

\* C2: when markAllCurrentAsOrphans has completed, every Tab, Window and
\* TabGroup record in the store has isOrphan = 1.
C2_SweepCompleteAllOrphan ==
    [][\A r \in Runs :
          (run[r].pc = "mark_groups" /\ run'[r].pc = "rec_session") =>
              /\ \A x \in DOMAIN db'.openTabs : db'.openTabs[x].isOrphan = 1
              /\ \A x \in DOMAIN db'.openWindows : db'.openWindows[x].isOrphan = 1
              /\ \A x \in DOMAIN db'.tabGroups : db'.tabGroups[x].isOrphan = 1]_vars

\* C3: when performRecovery returns, for every matched pair (O, C) the stored
\* title of C is the title of O, and the window record of O, its tab records
\* and its orphan tab-group records are gone from the store.
C3_MatchedPairsTransferred ==
    \A r \in Runs :
        (run[r].pc = "rec_return" /\ run[r].matchResult # <<>>) =>
            LET matched == run[r].matchResult[1].matched
            IN \A i \in DOMAIN matched :
                  LET O == matched[i].orphanWindow
                      C == matched[i].currentWindow
                  IN /\ C.id \in DOMAIN db.openWindows
                     /\ db.openWindows[C.id].title = O.title
                     /\ O.id \notin DOMAIN db.openWindows
                     /\ \A x \in DOMAIN db.openTabs : db.openTabs[x].windowId # O.id
                     /\ \A x \in DOMAIN db.tabGroups :
                           ~(db.tabGroups[x].windowId = O.id
                             /\ db.tabGroups[x].isOrphan = 1)

\* C4: when performRecovery returns, the orphan windows that are in no
\* matched pair are in the store with their tabs, all flagged orphan, and
\* the returned unmatchedOrphans list names exactly those windows.
C4_UnmatchedKeptAndNamed ==
    \A r \in Runs :
        (run[r].pc = "rec_return" /\ run[r].result # <<>>) =>
            LET unmatched == run[r].result[1].unmatchedOrphans
                named == {unmatched[i].windowId : i \in DOMAIN unmatched}
                matchedIds ==
                    IF run[r].matchResult = <<>> THEN {}
                    ELSE {run[r].matchResult[1].matched[i].orphanWindow.id :
                              i \in DOMAIN run[r].matchResult[1].matched}
                left == {w \in DOMAIN db.openWindows : db.openWindows[w].isOrphan = 1}
                            \ matchedIds
            IN /\ named = left
               /\ \A i \in DOMAIN unmatched :
                     LET tabs == getOrphanTabsByWindowId(db, unmatched[i].windowId)
                     IN unmatched[i].tabs = MapSeq(tabs, LAMBDA t : t.url)

\* C6: when forceApplyAnchorData returns, every live tab of the target window
\* whose URL is saved in the anchor config has the saved timeAccumulated in
\* the store, whatever it had before.
C6_ForceAppliesSavedTime ==
    [][\A r \in Runs :
          (run[r].pc = "anchor_force" /\ run'[r].pc = "anchor_banner") =>
              LET saved == run[r].anchorConfig[1].tabs
                  live == TabsInWindow(chrome, run[r].target)
              IN \A i \in DOMAIN saved, j \in DOMAIN live :
                    (saved[i].url # NoUrl /\ live[j].url = saved[i].url) =>
                        /\ live[j].id \in DOMAIN db'.openTabs
                        /\ db'.openTabs[live[j].id].timeAccumulated
                               = saved[i].timeAccumulated]_vars

\* C7: anchor window recovery runs after every initialization path: a run of
\* initialize that is on the restart-recovery path or on the sync path does
\* not end before it has reached restoreAnchorWindowIfNeeded.
C7_AnchorRecoveryAfterEveryPath ==
    [][\A r \in Runs :
          run[r].pc \in {"mark_tabs", "mark_windows", "mark_groups", "rec_session",
                         "rec_poll", "rec_insert", "rec_match", "rec_transfer",
                         "rec_return", "sync_state", "sync_badge"}
              => run'[r].pc # "done"]_vars

\* C8: a run of initialize that has only polled changes no store record and
\* does not set isInitialized; when non-orphan windows are stored and the
\* polling is exhausted without a normal window, it returns with the
\* 'no_normal_windows' outcome.
C8_DeferWithoutWrites ==
    [][\A r \in Runs :
          (run[r].pc \in {"detect", "poll"} /\ run'[r] # run[r]) =>
              /\ db' = db
              /\ sm'.isInitialized = sm.isInitialized
              /\ (run[r].pc = "poll" /\ run[r].polls = PollRetries
                  /\ run'[r].outcome # "rejected") =>
                     /\ run[r].storedIds # {}
                     /\ run'[r].pc = "done"
                     /\ run'[r].outcome = "deferred"
                     /\ run'[r].detection =
                            <<[isRestart |-> FALSE, reason |-> "no_normal_windows"]>>]_vars

\* a run gave up polling and returned; the manager is not initialized
C8_Witness ==
    /\ ~sm.isInitialized
    /\ \E r \in Runs :
          /\ run[r].outcome = "deferred"
          /\ run[r].storedIds # {}
          /\ \A x \in run[r].storedIds :
                x \in DOMAIN db.openWindows /\ db.openWindows[x].isOrphan = 0

\* C9: after an initialization was deferred, once a normal window is open the
\* manager eventually gets initialized, unless no normal window stays open.
C9_DeferredEventuallyInitialized ==
    (env.deferred /\ NormalWindowIds(chrome) # {} /\ ~sm.isInitialized)
        ~> (sm.isInitialized \/ NormalWindowIds(chrome) = {})

\* an initialization was deferred and a later run has completed
C9_Witness ==
    /\ env.deferred
    /\ env.created > 0
    /\ sm.isInitialized
    /\ NormalWindowIds(chrome) # {}

\* C10: whenever restoreUnmatchedWindow returns success = false, the orphan
\* window record, its tab records and its tab-group records are still in the
\* store and the window is still listed in the pending recovery result.
C10_FailedRestoreKeepsOrphan ==
    [][(lastRestore' # lastRestore /\ ~lastRestore'[1].success) =>
          LET w == lastRestore'[1].windowId
          IN /\ w \in DOMAIN db.openWindows => w \in DOMAIN db'.openWindows
             /\ \A x \in DOMAIN db.openTabs :
                   db.openTabs[x].windowId = w => x \in DOMAIN db'.openTabs
             /\ \A x \in DOMAIN db.tabGroups :
                   db.tabGroups[x].windowId = w => x \in DOMAIN db'.tabGroups
             /\ w \in PendingIds(db')]_vars

\* C11: restoreUnmatchedWindow on an orphan window none of whose tabs has a
\* valid URL creates no browser window, deletes the orphan window and its
\* tabs, removes it from the pending recovery list and returns success.
C11_NoValidUrlRestoreSucceeds ==
    [][\A w \in PendingIds(db) :
          LET orphanTabs == getOrphanTabsByWindowId(db, w)
          IN (/\ lastRestore' # lastRestore
              /\ lastRestore'[1].windowId = w
              /\ Len(orphanTabs) > 0
              /\ \A i \in DOMAIN orphanTabs : ~isValidUrl(orphanTabs[i].url)) =>
                 /\ DOMAIN chrome'.windows = DOMAIN chrome.windows
                 /\ w \notin DOMAIN db'.openWindows
                 /\ \A x \in DOMAIN db'.openTabs : db'.openTabs[x].windowId # w
                 /\ w \notin PendingIds(db')
                 /\ lastRestore'[1].success]_vars

\* C12: when restoreUnmatchedWindow(W) returns success, the orphan window
\* record of W, the orphan tab records of W and the orphan tab-group records
\* of W are no longer in the store.
C12_SuccessfulRestoreDeletesOrphan ==
    [][(lastRestore' # lastRestore /\ lastRestore'[1].success) =>
          LET w == lastRestore'[1].windowId
          IN /\ w \notin DOMAIN db'.openWindows
             /\ \A x \in DOMAIN db'.openTabs :
                   ~(db'.openTabs[x].windowId = w /\ db'.openTabs[x].isOrphan = 1)
             /\ \A x \in DOMAIN db'.tabGroups :
                   ~(db'.tabGroups[x].windowId = w /\ db'.tabGroups[x].isOrphan = 1)]_vars

\* the orphan window "Work", which had a tab group, was restored
C12_Witness ==
    /\ lastRestore # <<>>
    /\ lastRestore[1].success
    /\ lastRestore[1].windowId = 1
    /\ 1 \notin DOMAIN db.openWindows
    /\ 201 \notin DOMAIN db.tabGroups

\* C15: in the anchor flow, between finding or creating the anchor window
\* and the force-apply write, no URL-change event of a tab the flow restores
\* is handled as non-restoring.
C15_AnchorTabsRestoringUntilForced ==
    [][\A r \in Runs :
          (/\ run[r].pc = "anchor_force"
           /\ env'.navigated # env.navigated
           /\ log'[1].id \in DOMAIN chrome.tabs
           /\ chrome.tabs[log'[1].id].windowId = run[r].target
           /\ SavedTabFor(run[r].anchorConfig[1], chrome.tabs[log'[1].id].url) # <<>>)
              => log'[1].restoring]_vars

\* C13: once restoreUnmatchedWindow has returned success, the stored record of
\* every recreated tab that is still restoring holds the timeAccumulated and
\* the lastAccessed of the orphan tab it was created from
C13_RestoredTabDataKept ==
    (lastRestore # <<>> /\ lastRestore[1].success) =>
        \A i \in DOMAIN lastRestore[1].createdTabs :
            LET created == lastRestore[1].createdTabs[i]
            IN (/\ isTabRestoring(sm, created.newTabId)
                /\ created.newTabId \in DOMAIN db.openTabs)
                   => /\ db.openTabs[created.newTabId].timeAccumulated
                            = created.orphanTab.timeAccumulated
                      /\ db.openTabs[created.newTabId].lastAccessed
                            = created.orphanTab.lastAccessed

\* C14: a URL-change event of a tab marked restoring less than 10 seconds
\* earlier leaves the tab's stored timeAccumulated as it was; one that arrives
\* more than 10 seconds after the mark sets it to 0
C14_RestoringSuppressesResetForTenSeconds ==
    [][\A t \in DOMAIN sm.restoringTabIds :
          (/\ env'.navigated # env.navigated
           /\ log'[1].id = t
           /\ t \in DOMAIN db.openTabs)
              => /\ now - sm.restoringTabIds[t] < RestoringWindow
                    => /\ t \in DOMAIN db'.openTabs
                       /\ db'.openTabs[t].timeAccumulated = db.openTabs[t].timeAccumulated
                 /\ now - sm.restoringTabIds[t] > RestoringWindow
                    => /\ t \in DOMAIN db'.openTabs
                       /\ db'.openTabs[t].timeAccumulated = 0]_vars

\* a recreated tab that got its 5 seconds back navigated 11 seconds after the
\* mark and lost them
C14_Witness ==
    /\ log # <<>>
    /\ log[1].op = "tabs.onUpdated"
    /\ log[1].sinceMark = 11000
    /\ log[1].timeBefore = 5
    /\ log[1].id \in DOMAIN db.openTabs
    /\ db.openTabs[log[1].id].timeAccumulated = 0

\* C16: a non-orphan record of a tab, window or tab group leaves the store
\* only in a step in which the removal alarm scheduled for it fires (for a
\* tab, also the alarm of its window); no removal event deletes it
C16_RecordsDeletedOnlyByAlarm ==
    [][/\ \A t \in DOMAIN db.openTabs :
             (db.openTabs[t].isOrphan = 0 /\ t \notin DOMAIN db'.openTabs)
                => \/ <<"remove-tab", t>> \in chrome.alarms \ chrome'.alarms
                   \/ \E call \in calls \ calls' :
                         call.op = "alarms.onAlarm" /\ call.id = db.openTabs[t].windowId
       /\ \A w \in DOMAIN db.openWindows :
             (db.openWindows[w].isOrphan = 0 /\ w \notin DOMAIN db'.openWindows)
                => <<"remove-window", w>> \in chrome.alarms \ chrome'.alarms
       /\ \A g \in DOMAIN db.tabGroups :
             (db.tabGroups[g].isOrphan = 0 /\ g \notin DOMAIN db'.tabGroups)
                => <<"remove-group", g>> \in chrome.alarms \ chrome'.alarms]_vars

\* group 6, tab 5 and window 3 are closed, their removal handlers have run,
\* and the three records are still in the store, non-orphan
C16_Witness ==
    /\ 3 \notin DOMAIN chrome.windows
    /\ {<<"remove-group", 6>>, <<"remove-tab", 5>>, <<"remove-window", 3>>} \subseteq chrome.alarms
    /\ 5 \in DOMAIN db.openTabs /\ db.openTabs[5].isOrphan = 0
    /\ 3 \in DOMAIN db.openWindows /\ db.openWindows[3].isOrphan = 0
    /\ 6 \in DOMAIN db.tabGroups /\ db.tabGroups[6].isOrphan = 0

\* the store table and the browser table of a creation handler
StoreOf(op, d) ==
    CASE op = "tabs.onCreated" -> d.openTabs
      [] op = "windows.onCreated" -> d.openWindows
      [] OTHER -> d.tabGroups

LiveOf(op, c) ==
    CASE op = "tabs.onCreated" -> c.tabs
      [] op = "windows.onCreated" -> c.windows
      [] OTHER -> c.tabGroups

CreationOps == {"tabs.onCreated", "windows.onCreated", "tabGroups.onCreated"}

CallsFlushTime ==
    \/ chrome'.active # chrome.active
    \/ env'.focusChanges # env.focusChanges /\ ~Unfocused
    \/ \E call \in calls \ calls' :
          call.op = "tabs.onRemoved" /\ call.pc = "schedule" /\ call.id = tt.activeTabId

\* C18: flushTime with the browser focused and an active non-orphan tab: when
\* less than 1000 ms have elapsed the tab's stored timeAccumulated is left as
\* it is (unless the handler is the activation of that very tab, which resets
\* it); when at least 1000 ms have elapsed the write adds the elapsed time
C18_FlushCreditsFromOneSecond ==
    [][(flushDue(tt) /\ creditable(db, tt.activeTabId)) =>
          /\ (CallsFlushTime /\ now - tt.lastActiveTime < FlushThreshold)
                => /\ tt.activeTabId \in DOMAIN db'.openTabs
                   /\ \/ db'.openTabs[tt.activeTabId].timeAccumulated
                            = db.openTabs[tt.activeTabId].timeAccumulated
                      \/ \E w \in DOMAIN chrome.active :
                            /\ chrome'.active[w] # chrome.active[w]
                            /\ chrome'.active[w] = tt.activeTabId
                   /\ \A call \in calls' \ calls : call.pc # "flush"
          /\ (CallsFlushTime /\ now - tt.lastActiveTime >= FlushThreshold)
                => \E call \in calls' :
                      /\ call.pc = "flush"
                      /\ call.data.flush.tabId = tt.activeTabId
                      /\ call.data.flush.elapsed = now - tt.lastActiveTime
          /\ \A call \in calls \ calls' :
                (/\ call.pc = "flush"
                 /\ call.data.flush.tabId = tt.activeTabId
                 /\ ~(call.op = "tabs.onActivated" /\ call.id = tt.activeTabId))
                    => db'.openTabs[tt.activeTabId].timeAccumulated
                          = db.openTabs[tt.activeTabId].timeAccumulated
                            + call.data.flush.elapsed]_vars

\* tab 4 was active and focused for 1500 ms and its stored time is 1500
C18_Witness ==
    /\ \E i \in DOMAIN log :
          log[i] = [op |-> "credit", id |-> 4, from |-> StartTime, to |-> StartTime + 1500]
    /\ 4 \in DOMAIN db.openTabs
    /\ db.openTabs[4].timeAccumulated = 1500

\* C19: no interval credited to a tab by the time tracker overlaps an
\* interval in which the browser had lost focus
C19_UnfocusedTimeNeverCredited ==
    \A i \in DOMAIN log : \A j \in DOMAIN log :
        (log[i].op = "credit" /\ log[j].op = "unfocused")
            => ~(Max(log[i].from, log[j].from)
                   < (IF log[j].to = 0 THEN log[i].to
                      ELSE IF log[j].to < log[i].to THEN log[j].to ELSE log[i].to))

C21_AnchorTableSingleton == Len(db.anchorWindow) <= 1

\* C22: whenever no run of initialize and no event handler is in progress and
\* no removal alarm is pending, the windowId of every stored tab record is
\* the id of a stored window record
C22_TabsReferenceStoredWindows ==
    (/\ FreeRuns(run) = Runs
     /\ pendingCreated = {}
     /\ calls = {}
     /\ chrome.alarms = {})
        => \A t \in DOMAIN db.openTabs : db.openTabs[t].windowId \in DOMAIN db.openWindows

\* C23: a call of cleanupOldOrphans deletes every orphan window whose
\* lastAccessed is older than the maximum age, together with the tab records
\* and the tab-group records of that window, and changes nothing else
C23_SweepDeletesOldOrphansWhole ==
    [][log' # log =>
          LET cutoffTime == now - log'[1].id * MsPerDay
              old == {w \in DOMAIN db.openWindows :
                         /\ db.openWindows[w].isOrphan = 1
                         /\ db.openWindows[w].lastAccessed < cutoffTime}
          IN /\ db'.openWindows = Remove(db.openWindows, old)
             /\ db'.openTabs = Remove(db.openTabs,
                                      {t \in DOMAIN db.openTabs : db.openTabs[t].windowId \in old})
             /\ db'.tabGroups = Remove(db.tabGroups,
                                       {g \in DOMAIN db.tabGroups :
                                           db.tabGroups[g].windowId \in old})]_vars

\* C24: an orphan window whose lastAccessed is older than the maximum age
\* (the largest value of MaxAgeDays) is eventually deleted from the store
\* while the worker keeps running
C24_OldOrphansEventuallyDeleted ==
    \A w \in {1, 2} :
        [](( /\ w \in DOMAIN db.openWindows
             /\ db.openWindows[w].isOrphan = 1
             /\ db.openWindows[w].lastAccessed < now - 2 * MsPerDay)
           => <>(w \notin DOMAIN db.openWindows))

\* the entries of the pending recovery list whose tab URLs cover at least
\* half of the saved URLs of the anchor config
CoveringEntries(d, anchorConfig) ==
    IF d.recoveryResult = <<>> \/ SavedUrls(anchorConfig) = {} THEN {}
    ELSE {i \in DOMAIN d.recoveryResult[1].unmatchedOrphans :
             2 * Cardinality(SavedUrls(anchorConfig)
                             \cap SeqToSet(d.recoveryResult[1].unmatchedOrphans[i].tabs))
                >= Cardinality(SavedUrls(anchorConfig))}

Coverage(w) ==
    Cardinality({u \in SavedUrls(mIn.anchorConfig) :
                    \E t \in DOMAIN chrome.tabs :
                        chrome.tabs[t].windowId = w /\ chrome.tabs[t].url = u})

ReachesHalf(w) ==
    /\ SavedUrls(mIn.anchorConfig) # {}
    /\ 2 * Coverage(w) >= Cardinality(SavedUrls(mIn.anchorConfig))

\* C26: findAnchorWindow returns a live window only if at least 50% of the
\* saved URLs are URLs of its tabs; when some live window reaches 50% it
\* returns one of maximal coverage; otherwise it returns none
C26_AnchorWindowBestAboveHalf ==
    mOut # <<>> =>
        /\ mOut[1] # 0 => (mOut[1] \in DOMAIN chrome.windows /\ ReachesHalf(mOut[1]))
        /\ (\E w \in DOMAIN chrome.windows : ReachesHalf(w))
              => /\ mOut[1] # 0
                 /\ \A w \in DOMAIN chrome.windows : Coverage(w) <= Coverage(mOut[1])
        /\ (~\E w \in DOMAIN chrome.windows : ReachesHalf(w)) => mOut[1] = 0

\* both windows reach 50%, the later one in the order covers more and is returned
C26_Witness ==
    /\ mOut # <<>>
    /\ ReachesHalf(3) /\ ReachesHalf(4)
    /\ Coverage(4) > Coverage(3)
    /\ mIn.browserWindows = <<3, 4>>
    /\ mOut[1] = 4

\* C27: the badge update that follows the state sync of initialize is
\* bookkeeping: whether it succeeds or fails, the run goes on to the anchor
\* recovery
C27_BookkeepingFailureNeverAborts ==
    [][\A r \in Runs :
          (run[r].pc = "sync_badge" /\ run'[r] # run[r]) => run'[r].pc = "anchor_find"]_vars

\* the greedy loop of findBestMatches with the threshold test taken out
RECURSIVE GreedyMatchNoThreshold(_, _, _, _)
GreedyMatchNoThreshold(scores, matched, orphanTabs, currentTabs) ==
    IF scores = <<>> THEN matched
    ELSE LET p == Head(scores)
         IN IF AlreadyUsed(matched, p)
            THEN GreedyMatchNoThreshold(Tail(scores), matched, orphanTabs, currentTabs)
            ELSE GreedyMatchNoThreshold(Tail(scores),
                     Append(matched,
                         [orphanWindow |-> p.orphanWindow,
                          currentWindow |-> p.currentWindow,
                          confidence |-> p.score,
                          orphanTabs |-> groupTabsByWindow(orphanTabs, p.orphanWindow.id),
                          currentTabs |-> groupTabsByWindow(currentTabs, p.currentWindow.id)]),
                     orphanTabs, currentTabs)

AtLeastThreshold(matched) == SelectSeq(matched, LAMBDA m : ~BelowThreshold(m.confidence))

SortedPairs ==
    LET pairs == PairScores(mIn.orphanWindows, mIn.currentWindows,
                            mIn.orphanTabs, mIn.currentTabs)
    IN SortByScoreDesc(pairs, DOMAIN pairs)

\* C28: for every order the sort of the pair scores can produce, the matched
\* list built with the 0.35 threshold is the list the greedy loop builds
\* without a threshold, restricted to its pairs of score >= 0.35, in the same
\* order; the list findBestMatches returned is one of these.
C28_ThresholdOnlyRemovesPairs ==
    mOut # <<>> =>
        /\ \A scores \in SortedPairs :
              GreedyMatch(scores, <<>>, mIn.orphanTabs, mIn.currentTabs)
                = AtLeastThreshold(GreedyMatchNoThreshold(scores, <<>>, mIn.orphanTabs,
                                                          mIn.currentTabs))
        /\ \E scores \in SortedPairs :
              mOut[1].matched
                = AtLeastThreshold(GreedyMatchNoThreshold(scores, <<>>, mIn.orphanTabs,
                                                          mIn.currentTabs))

\* a result with an accepted match where the loop without threshold goes on
\* to accept a pair below the threshold
C28_Witness ==
    /\ mOut # <<>>
    /\ Len(mOut[1].matched) >= 1
    /\ \E scores \in SortedPairs :
          Len(GreedyMatchNoThreshold(scores, <<>>, mIn.orphanTabs, mIn.currentTabs))
            > Len(mOut[1].matched)

UrlsOf(tabs) == [i \in DOMAIN tabs |-> tabs[i].url]

\* the pairs of an orphan and a current window holding the same non-empty
\* list of tabs, every URL of it valid
UnchangedPairs ==
    LET pairs == PairScores(mIn.orphanWindows, mIn.currentWindows,
                            mIn.orphanTabs, mIn.currentTabs)
    IN {k \in DOMAIN pairs :
          LET prevTabs == groupTabsByWindow(mIn.orphanTabs, pairs[k].orphanWindow.id)
              currTabs == groupTabsByWindow(mIn.currentTabs, pairs[k].currentWindow.id)
          IN /\ UrlsOf(prevTabs) = UrlsOf(currTabs)
             /\ prevTabs # <<>>
             /\ \A i \in DOMAIN prevTabs : isValidUrl(prevTabs[i].url)}

\* C29: the score of a window against a window with the same non-empty list
\* of tabs, all of valid URL, is 1, and so is not below the threshold.
C29_ScoreOfUnchangedWindowIsOne ==
    mOut # <<>> =>
        \A k \in UnchangedPairs :
            LET score == PairScores(mIn.orphanWindows, mIn.currentWindows,
                                    mIn.orphanTabs, mIn.currentTabs)[k].score
            IN /\ score.num = score.den
               /\ \A i \in 1..4 : score.parts[i].num = score.parts[i].den
               /\ ~BelowThreshold(score)

\* the matcher has run on an unchanged window of two tabs of different domain
C29_Witness ==
    /\ mOut # <<>>
    /\ \E k \in UnchangedPairs :
          LET p == PairScores(mIn.orphanWindows, mIn.currentWindows,
                              mIn.orphanTabs, mIn.currentTabs)[k]
              prevTabs == groupTabsByWindow(mIn.orphanTabs, p.orphanWindow.id)
          IN /\ Len(prevTabs) = 2
             /\ prevTabs[1].url.host # prevTabs[2].url.host

\* C30: a window whose restore, discard or keep-for-later handler has
\* returned is not in the pending recovery list, whatever handlers for
\* other orphan windows ran meanwhile.
C30_HandledWindowStaysOffPendingList ==
    \A i \in DOMAIN log :
        log[i].op \in PendingTypes => log[i].id \notin PendingIds(db)

\* the pairs restoreTabGroupTitles accepts for the call of SpecGroups
AcceptedPairs ==
    LET orphanGroups == getOrphanTabGroupsByWindowId(mIn.db, 1)
    IN acceptedGroupPairs(groupMatches({orphanGroups[i].id : i \in DOMAIN orphanGroups},
                                       getOrphanTabsByWindowId(mIn.db, 1),
                                       TabsInWindow(mIn.chrome, 3)),
                          {}, {})

SharesUrl(p) ==
    \E i \in DOMAIN mIn.db.openTabs, j \in DOMAIN mIn.chrome.tabs :
        /\ mIn.db.openTabs[i].isOrphan = 1 /\ mIn.db.openTabs[i].groupId = p.orphanGroupId
        /\ mIn.chrome.tabs[j].groupId = p.currentGroupId
        /\ mIn.db.openTabs[i].url = mIn.chrome.tabs[j].url

PairsOneToOne ==
    \A i, j \in DOMAIN AcceptedPairs :
        i # j => /\ AcceptedPairs[i].currentGroupId # AcceptedPairs[j].currentGroupId
                 /\ AcceptedPairs[i].orphanGroupId # AcceptedPairs[j].orphanGroupId

\* the orphan group's title is on the browser group and on the store record
TitleWritten(p) ==
    /\ chrome.tabGroups[p.currentGroupId].title = mIn.db.tabGroups[p.orphanGroupId].title
    /\ db.tabGroups[p.currentGroupId].title = mIn.db.tabGroups[p.orphanGroupId].title

\* C31 as stated: after restoreTabGroupTitles the accepted pairs are one to
\* one, every pair shares a member tab URL, and every paired live group
\* carries the orphan group's title in the browser and in the store.
C31_GroupPairsTitled ==
    mOut # <<>> =>
        /\ PairsOneToOne
        /\ \A i \in DOMAIN AcceptedPairs :
              SharesUrl(AcceptedPairs[i]) /\ TitleWritten(AcceptedPairs[i])

\* C31 amended: the same, the title being written for the pairs whose orphan
\* group has a non-empty title; a group outside every pair keeps its title.
C31_GroupPairsTitledWhenNamed ==
    mOut # <<>> =>
        /\ PairsOneToOne
        /\ \A i \in DOMAIN AcceptedPairs :
              /\ SharesUrl(AcceptedPairs[i])
              /\ Truthy(mIn.db.tabGroups[AcceptedPairs[i].orphanGroupId].title)
                    => TitleWritten(AcceptedPairs[i])
        /\ \A g \in DOMAIN mIn.chrome.tabGroups :
              (\A i \in DOMAIN AcceptedPairs :
                  \/ AcceptedPairs[i].currentGroupId # g
                  \/ ~Truthy(mIn.db.tabGroups[AcceptedPairs[i].orphanGroupId].title))
              => /\ chrome.tabGroups[g] = mIn.chrome.tabGroups[g]
                 /\ db.tabGroups[g] = mIn.db.tabGroups[g]

\* two pairs were accepted and the live group "L" took the title "G"
C31_Witness ==
    /\ mOut # <<>>
    /\ Len(AcceptedPairs) = 2
    /\ mIn.chrome.tabGroups[6].title = "L"
    /\ chrome.tabGroups[6].title = "G"
    /\ db.tabGroups[6].title = "G"

\* the config forceApplyAnchorData read and the one it left in the store
ForcedStep(r) == run[r].pc = "anchor_force" /\ run'[r].pc = "anchor_banner"

TitleKept(r) ==
    db'.anchorWindow # <<>> =>
        db'.anchorWindow[1].windowTitle = run[r].anchorConfig[1].windowTitle

SavedTimesKept(r) ==
    db'.anchorWindow # <<>> =>
        LET saved == run[r].anchorConfig[1].tabs
            snap == db'.anchorWindow[1].tabs
        IN \A i \in DOMAIN saved, j \in DOMAIN snap :
              (saved[i].url # NoUrl /\ snap[j].url = saved[i].url) =>
                  snap[j].timeAccumulated = saved[i].timeAccumulated

\* what the anchor data is about: the config, the stored title of the window
\* and the stored time of each of its live tabs (0 without a record)
AnchorView(d, c, w) ==
    [config |-> d.anchorWindow,
     title |-> IF w \in DOMAIN d.openWindows THEN d.openWindows[w].title ELSE "",
     times |-> MapSeq(TabsInWindow(c, w),
                      LAMBDA t : IF t.id \in DOMAIN d.openTabs
                                 THEN d.openTabs[t.id].timeAccumulated ELSE 0)]

SecondApplyChangesNothing(r) ==
    db'.anchorWindow # <<>> =>
        AnchorView(forceApplyAnchorData(db', chrome', sm', run[r].target,
                                        db'.anchorWindow[1]).db, chrome', run[r].target)
            = AnchorView(db', chrome', run[r].target)

\* C32: when forceApplyAnchorData returns, the anchor config it re-snapshots
\* holds the window title of the config it was given and, for every live tab
\* whose URL was saved, the saved timeAccumulated; applying the new config to
\* the unchanged window again changes neither the config nor the stored title
\* and times of the window.
C32_ForcedValuesSurviveSnapshot ==
    [][\A r \in Runs :
          ForcedStep(r) => TitleKept(r) /\ SavedTimesKept(r) /\ SecondApplyChangesNothing(r)]_vars

\* the runs of initialize in progress
RunsInProgress == Runs \ FreeRuns(run)

\* C33: at most one run of SessionManager.initialize is in progress at a time.
C33_InitializeNeverOverlaps == Cardinality(RunsInProgress) <= 1

\* C34: the step in which anchor recovery creates the window for the anchor
\* config starts no further run of initialize.
C34_AnchorWindowStartsNoRun ==
    [][\A r \in Runs :
          (run[r].pc = "anchor_find" /\ run'[r].pc = "anchor_force" /\ chrome' # chrome)
              => \A q \in Runs \ {r} : run'[q] = run[q]]_vars

\* the window ids the previous process left in the store
PreviousIds == DOMAIN StoredWorkAndInternal.openWindows

\* the windows of the previous process are in the store as it left them: no
\* run of initialize has marked, synced or deleted them
PreviousIntact ==
    \A w \in PreviousIds :
        /\ w \in DOMAIN db.openWindows
        /\ db.openWindows[w] = StoredWorkAndInternal.openWindows[w]

\* C35: as long as the windows of the previous process are stored as it left
\* them, the stored windows a run's restart detection reads are those windows,
\* and when none of them is live and a normal window is, the detection
\* reports a restart; this also on a run started by the deferred listener.
C35_DetectionReadsOnlyOldWindows ==
    [][\A r \in Runs :
          PreviousIntact =>
              /\ (run[r].pc = "detect" /\ run'[r].pc # "detect")
                    => {x \in DOMAIN db.openWindows : db.openWindows[x].isOrphan # 1}
                           \subseteq PreviousIds
              /\ (run[r].pc = "poll" /\ run'[r].pc \in {"mark_tabs", "sync_state"}
                  /\ run[r].storedIds \cap PreviousIds # {}
                  /\ PreviousIds \cap NormalWindowIds(chrome) = {})
                    => run'[r].detection[1].isRestart]_vars

\* the timeAccumulated of the stored tabs S, added up
RECURSIVE StoredTime(_, _)
StoredTime(d, S) ==
    IF S = {} THEN 0
    ELSE LET t == CHOOSE x \in S : TRUE
         IN d.openTabs[t].timeAccumulated + StoredTime(d, S \ {t})

\* C36: the time stored for all tabs together never grows by more than the
\* time that has passed since the tracker started, a fortiori not by more
\* than the part of it with the browser focused, whatever the interleaving
\* of the activation, focus-change and tab-removal handlers
C36_CreditedWithinElapsedTime ==
    StoredTime(db, DOMAIN db.openTabs)
        <= StoredTime(RecoveredDb, DOMAIN RecoveredDb.openTabs) + (now - StartTime)

\* the saved anchor config as it is kept for the next recovery: its window
\* title and the urls of its tab list
SavedConfig(d) ==
    [windowTitle |-> d.anchorWindow[1].windowTitle,
     tabs |-> MapSeq(d.anchorWindow[1].tabs, LAMBDA t : t.url)]

\* C37: once the bound anchor window 3 is closed, no step of the tab-removal
\* handlers, the time-flush callback or the window-removal handler changes
\* the window title or the tab list of the saved anchor config, and when all
\* of them have finished activeAnchorWindowId is cleared
C37_ClosingKeepsAnchorConfig ==
    [][(3 \notin DOMAIN chrome'.windows)
          => /\ SavedConfig(db') = SavedConfig(db)
             /\ calls' = {} => db'.activeAnchorWindowId = 0]_vars

\* the step leaves every record of table t that has isOrphan = 1 as it is
OrphansKept(t, u) ==
    \A x \in DOMAIN t : t[x].isOrphan = 1 => (x \in DOMAIN u /\ u[x] = t[x])

\* the step records live browser state: the snapshot insertion of
\* performRecovery, syncCurrentBrowserState or a creation handler
RecordsLiveState ==
    \/ mIn.phase = "marked" /\ mIn'.phase = "inserted"
    \/ mIn.phase = "start" /\ mIn'.phase = "running"
    \/ env'.tabsCreated # env.tabsCreated

\* C38: a step that records live browser state leaves every window, tab and
\* tab-group record with isOrphan = 1 in the store, unchanged, whatever ids
\* the browser has given to its windows, tabs and groups
C38_RecordingKeepsOrphans ==
    [][RecordsLiveState =>
          /\ OrphansKept(db.openWindows, db'.openWindows)
          /\ OrphansKept(db.openTabs, db'.openTabs)
          /\ OrphansKept(db.tabGroups, db'.tabGroups)]_vars

\* the step leaves every record of table t that has isOrphan = 0 as it is
NonOrphansKept(t, u) ==
    \A x \in DOMAIN t : t[x].isOrphan = 0 => (x \in DOMAIN u /\ u[x] = t[x])

\* the step resolves an orphan window of the recovery list
ResolvesOrphan == mIn' = mIn /\ db'.recoveryResult # db.recoveryResult

\* the step is the deferred deletion of a closed live window
DeletesClosedWindow == env'.closed # env.closed

\* C39: a step that resolves an orphan window leaves every non-orphan
\* window, tab and tab-group record as it is, and the deferred deletion of a
\* closed live window leaves every orphan record as it is
C39_DeletionsStayOnTheirSide ==
    [][/\ ResolvesOrphan =>
             /\ NonOrphansKept(db.openWindows, db'.openWindows)
             /\ NonOrphansKept(db.openTabs, db'.openTabs)
             /\ NonOrphansKept(db.tabGroups, db'.tabGroups)
       /\ DeletesClosedWindow =>
             /\ OrphansKept(db.openWindows, db'.openWindows)
             /\ OrphansKept(db.openTabs, db'.openTabs)
             /\ OrphansKept(db.tabGroups, db'.tabGroups)]_vars

\* the ids of the records of table t that are not orphans
NonOrphanIds(t) == {x \in DOMAIN t : t[x].isOrphan # 1}

\* the step is syncCurrentBrowserState on the no-restart path
SyncsState == mIn.phase = "start" /\ mIn'.phase = "running"

\* C40: after syncCurrentBrowserState on the no-restart path the non-orphan
\* window, tab and tab-group ids of the store are exactly the ids live in the
\* browser, and every non-orphan record that was stored for an id still live
\* keeps its title (windows, groups) and its timeAccumulated (tabs)
C40_SyncMirrorsBrowser ==
    [][SyncsState =>
          /\ NonOrphanIds(db'.openWindows) = DOMAIN chrome.windows
          /\ NonOrphanIds(db'.openTabs) = DOMAIN chrome.tabs
          /\ NonOrphanIds(db'.tabGroups) = DOMAIN chrome.tabGroups
          /\ \A w \in NonOrphanIds(db.openWindows) \cap DOMAIN chrome.windows :
                db'.openWindows[w].title = db.openWindows[w].title
          /\ \A g \in NonOrphanIds(db.tabGroups) \cap DOMAIN chrome.tabGroups :
                db'.tabGroups[g].title = db.tabGroups[g].title
          /\ \A t \in NonOrphanIds(db.openTabs) \cap DOMAIN chrome.tabs :
                db'.openTabs[t].timeAccumulated = db.openTabs[t].timeAccumulated]_vars

\* the worker restarted in the running browser: the sync has dropped the
\* records of the closed window 2 and of tab 102, recorded the new group 6,
\* and kept the title of window 1 and the 5 ms of tab 101
C40_Witness ==
    /\ mIn = [phase |-> "running", starts |-> 0]
    /\ mOut = <<StoredWorkAndInternal>>
    /\ chrome = LiveAs(1, 101, 6)
    /\ DOMAIN db.openWindows = {1}
    /\ DOMAIN db.openTabs = {101}
    /\ DOMAIN db.tabGroups = {6}
    /\ db.openWindows[1].title = "Work"
    /\ db.openTabs[101].timeAccumulated = 5

=============================================================================
